---- MODULE Spec2Model ----
(***************************************************************************)
(* State-machine model of the wallabag-tools scripts:                      *)
(*   wallabag_paywall_archiver.py  (archive-replacement workflow)          *)
(*   wallabag_labeler.py           (broken / old / very-old labelling)     *)
(*   wallabag_rss_importer.py      (RSS import)                            *)
(* The remote catalog service and archive.is are the environment: every    *)
(* response they can give is a nondeterministic choice.  Each request the  *)
(* scripts issue is appended to the log `reqs`.                            *)
(***************************************************************************)
EXTENDS Integers, Sequences, FiniteSets, TLC

VARIABLES
    script,             \* which script runs
    pc,                 \* position of the run
    token,              \* WALLABAG_TOKEN is set
    dry_run,            \* --dry-run
    reading_threshold,  \* the reading_threshold keyword argument, or Absent
    server,             \* the catalog held by the remote service
    server0,            \* the catalog when the run started
    next_id,            \* the id the service gives the next created entry
    articles,           \* the list the script fetched
    idx,                \* index of the next article of the loop
    reqs,               \* the requests issued so far
    py311,              \* the interpreter is Python 3.11 or later
    labeled_count,      \* labeled_count of the labelling function running
    labeled_old_count,  \* labeled_old_count of label_old_very_old_articles
    labeled_very_old_count, \* its labeled_very_old_count
    total_articles_added_to_wallabag, \* the counter of the RSS importer
    returned,           \* what the labelling functions returned, Null before
    missing_creds,      \* the configuration fields main found missing
    reported,           \* the configuration fields the error log names
    responses,          \* the page responses a fetcher called directly received
    days                \* the days argument of is_recent_article

\* what a run is started with
inputs == <<script, dry_run, reading_threshold, py311, server0, days>>

\* the counters of the labelling loops and of the import loop
counters == <<labeled_count, labeled_old_count, labeled_very_old_count,
              total_articles_added_to_wallabag, returned>>

\* what main read of the configuration and logged about it
config == <<missing_creds, reported>>

vars == <<script, pc, token, dry_run, reading_threshold, server, server0,
          next_id, articles, idx, reqs, py311, labeled_count,
          labeled_old_count, labeled_very_old_count,
          total_articles_added_to_wallabag, returned, missing_creds,
          reported, responses, days>>

(***************************************************************************)
(* Bounds of the model.                                                    *)
(***************************************************************************)
\* largest catalog the server holds when a run starts
MaxEntries == 2
\* page size the server uses when it cuts the catalog into pages
PageSize == 2
\* largest total page count a listing response reports
MaxPages == 3
\* page requests after which a fetch that still goes on is followed no further
MaxRequests == 4

(***************************************************************************)
(* Python values.  JSON null and a missing key are told apart because      *)
(* dict.get(key, default) treats them differently.                         *)
(***************************************************************************)
\* JSON null / Python None in an integer field
Null == -1
\* the key is missing from the entry
Absent == -2

\* a URL string is its scheme, its host name and its path; host names and
\* paths are sequences of text chunks, so that str.endswith and
\* str.startswith are suffix and prefix tests on the sequence
\* a falsy URL value: None, "" or a missing key
NoUrl == [scheme |-> "", host |-> <<>>, path |-> <<>>]

WsjHost == <<"wsj.com">>
SubWsjHost == <<"www.", "wsj.com">>
ExampleHost == <<"example.com">>
ArchiveHost == <<"archive.is">>

WsjA == [scheme |-> "http", host |-> WsjHost, path |-> <<"/a">>]
WsjB == [scheme |-> "http", host |-> SubWsjHost, path |-> <<"/b">>]
ExampleD == [scheme |-> "http", host |-> ExampleHost, path |-> <<"/d">>]
\* a URL from which urlparse extracts no hostname
NoHostE == [scheme |-> "", host |-> <<>>, path |-> <<"e">>]

\* the configured paywalled hosts (a subset of DEFAULT_PAYWALLED_HOSTS)
paywall_hosts == <<<<"ft.com">>, WsjHost>>

\* the reading-time threshold of process_articles
ReadingThreshold == 2

\* no tag
NoTags == {}

(***************************************************************************)
(* Sequence helpers.                                                       *)
(***************************************************************************)
Min(a, b) == IF a <= b THEN a ELSE b

\* str.endswith
EndsWith(s, h) ==
    /\ Len(h) <= Len(s)
    /\ SubSeq(s, Len(s) - Len(h) + 1, Len(s)) = h

\* str.startswith
StartsWith(s, h) ==
    /\ Len(h) <= Len(s)
    /\ SubSeq(s, 1, Len(h)) = h

(***************************************************************************)
(* Catalog entries.  tags is the set of labels attached server-side.       *)
(***************************************************************************)
\* a created_at that is missing from the entry
MissingDate == [kind |-> "missing", shape |-> "", suffix |-> "", date |-> <<0, 0, 0>>]

Entry(id, url, origin_url, reading_time) ==
    [id |-> id, url |-> url, origin_url |-> origin_url, pages |-> Absent,
     size |-> Absent, reading_time |-> reading_time,
     created_at |-> MissingDate, tags |-> NoTags]

\* a created_at string: an ISO date and time followed by the suffix, or
\* text that datetime.fromisoformat rejects ("not-a-date-string",
\* "2023/01/01"; date is the day such text would name were it accepted)
Iso(date, suffix) == [kind |-> "str", shape |-> "iso", suffix |-> suffix, date |-> date]
Garbage == [kind |-> "str", shape |-> "garbage", suffix |-> "", date |-> <<2023, 1, 1>>]
\* a created_at that is truthy and no string
NotAString == [kind |-> "notstr", shape |-> "", suffix |-> "", date |-> <<0, 0, 0>>]

\* an entry as the labelling functions read it
LEntry(id, pages, size, reading_time, created_at, tags) ==
    [id |-> id, url |-> NoUrl, origin_url |-> NoUrl, pages |-> pages,
     size |-> size, reading_time |-> reading_time,
     created_at |-> created_at, tags |-> tags]

\* what next(..., None) gives when no entry matches
NoEntry == Entry(Null, NoUrl, NoUrl, Absent)

\* the entries a catalog of the archiver's runs is drawn from.  Three are
\* candidates: the URL in url or only in origin_url, the host equal to a
\* paywalled host or a subdomain of it, the reading time below the
\* threshold, equal to it or missing, the id present or missing.  The others fail
\* one condition each: host, reading time above the threshold, reading time
\* null, no URL at all, a URL without hostname; a sixth has a paywalled
\* origin_url behind a url that is not paywalled.
ArchiverPool ==
    {Entry(1, WsjA, NoUrl, 1),
     Entry(1, NoUrl, WsjA, 2),
     Entry(Null, WsjB, NoUrl, Absent),
     Entry(1, ExampleD, NoUrl, 1),
     Entry(1, ExampleD, WsjA, 1),
     Entry(1, WsjA, NoUrl, 3),
     Entry(1, WsjA, NoUrl, Null),
     Entry(1, NoUrl, NoUrl, 1),
     Entry(1, NoHostE, NoUrl, 1)}

\* the catalogs: entry k has id k unless its id is missing
WithIds(cat) ==
    [k \in 1..Len(cat) |->
        IF cat[k].id = Null THEN cat[k] ELSE [cat[k] EXCEPT !.id = k]]

Catalogs(pool) ==
    {WithIds(cat) : cat \in UNION {[1..n -> pool] : n \in 0..MaxEntries}}

(***************************************************************************)
(* The catalog service's paginated listing, GET /api/entries.json.         *)
(***************************************************************************)
\* ceil(n / PageSize), and 1 for an empty catalog
NumPages(cat) ==
    IF Len(cat) = 0 THEN 1 ELSE (Len(cat) + PageSize - 1) \div PageSize

\* the body of page p of the catalog
PageBody(cat, p) ==
    [kind |-> "ok",
     items |-> SubSeq(cat, (p - 1) * PageSize + 1, Min(p * PageSize, Len(cat))),
     page |-> p, pages |-> NumPages(cat)]

\* a request that raises RequestException (transport failure or non-2xx)
ErrorResponse == [kind |-> "error", items |-> <<>>, page |-> 0, pages |-> 0]

\* the responses of a server whose request for page `fault` fails (0: none)
Listing(cat, fault) ==
    [p \in 1..(NumPages(cat) + 1) |->
        IF p = fault THEN ErrorResponse ELSE PageBody(cat, p)]

\* a response whose body is no JSON (response.json() raises)
DecodeError == [kind |-> "decode", items |-> <<>>, page |-> 0, pages |-> 0]

\* a JSON body without _embedded.items
NoContainer == [kind |-> "no_items", items |-> <<>>, page |-> 0, pages |-> 0]

\* the request raised an exception the fetchers catch
Failed(r) == r.kind \in {"error", "decode"}

\* bool(x) of an integer field read with data.get
Truthy(x) == x \notin {0, Null, Absent}

\* data.get("pages", 0)
PagesOrZero(r) == IF r.pages = Absent THEN 0 ELSE r.pages

\* UnreadStep that compares the page number the response reports
UnreadStepReportedPage(r, p, acc) ==
    IF Failed(r) THEN [articles |-> acc, more |-> FALSE]
    ELSE IF r.kind # "ok" THEN [articles |-> acc, more |-> FALSE]
    ELSE [articles |-> acc \o r.items,
          more |-> ~(r.items = <<>> \/ r.page >= PagesOrZero(r))]

\* one pass of the while loop of get_unread_articles that requested page p
\* and was answered r, with all_articles = acc before: all_articles after,
\* and whether the loop goes on to page p + 1
UnreadStep(r, p, acc) ==
    IF Failed(r) THEN [articles |-> acc, more |-> FALSE]
    ELSE IF r.kind # "ok" THEN [articles |-> acc, more |-> FALSE]
    ELSE [articles |-> acc \o r.items,
          more |-> ~(r.items = <<>> \/ p >= PagesOrZero(r))]

\* get_unread_articles's loop from page p on, with all_articles = acc so far:
\* the articles returned and the number of page requests issued
RECURSIVE UnreadLoop(_, _, _)
UnreadLoop(resp, p, acc) ==
    LET s == UnreadStep(resp[p], p, acc) IN
    IF s.more THEN UnreadLoop(resp, p + 1, s.articles)
    ELSE [articles |-> s.articles, requests |-> p]

get_unread_articles(resp) == UnreadLoop(resp, 1, <<>>)

\* AllStep that goes on while page <= pages
AllStepUpToPages(r, acc) ==
    IF Failed(r) THEN [articles |-> <<>>, more |-> FALSE]
    ELSE IF r.kind # "ok" THEN [articles |-> acc, more |-> FALSE]
    ELSE IF r.items = <<>> THEN [articles |-> acc, more |-> FALSE]
    ELSE [articles |-> acc \o r.items,
          more |-> Truthy(r.page) /\ Truthy(r.pages) /\ r.page <= r.pages]

\* one pass of the while loop of get_all_articles answered r: a failed
\* request discards what was accumulated (return [])
AllStep(r, acc) ==
    IF Failed(r) THEN [articles |-> <<>>, more |-> FALSE]
    ELSE IF r.kind # "ok" THEN [articles |-> acc, more |-> FALSE]
    ELSE IF r.items = <<>> THEN [articles |-> acc, more |-> FALSE]
    ELSE [articles |-> acc \o r.items,
          more |-> Truthy(r.page) /\ Truthy(r.pages) /\ r.page < r.pages]

\* get_all_articles's loop from page p on
RECURSIVE AllLoop(_, _, _)
AllLoop(resp, p, acc) ==
    LET s == AllStep(resp[p], acc) IN
    IF s.more THEN AllLoop(resp, p + 1, s.articles)
    ELSE [articles |-> s.articles, requests |-> p]

get_all_articles(resp) == AllLoop(resp, 1, <<>>)

(***************************************************************************)
(* Time.  An instant is a calendar date <<year, month, day>> (UTC); the    *)
(* time of day is the same for all instants of a run.                      *)
(***************************************************************************)
IsLeap(y) == (y % 4 = 0 /\ y % 100 # 0) \/ y % 400 = 0

\* calendar.monthrange(y, m)[1]
DaysInMonth(y, m) ==
    IF m = 2 THEN (IF IsLeap(y) THEN 29 ELSE 28)
    ELSE IF m \in {4, 6, 9, 11} THEN 30 ELSE 31

\* datetime < datetime
DateLT(a, b) ==
    \/ a[1] < b[1]
    \/ a[1] = b[1] /\ a[2] < b[2]
    \/ a[1] = b[1] /\ a[2] = b[2] /\ a[3] < b[3]

\* days before the first of January of year y, counted from year 1
DaysBeforeYear(y) ==
    LET n == y - 1 IN 365 * n + (n \div 4) - (n \div 100) + (n \div 400)

RECURSIVE DaysBeforeMonth(_, _)
DaysBeforeMonth(y, m) ==
    IF m = 1 THEN 0 ELSE DaysBeforeMonth(y, m - 1) + DaysInMonth(y, m - 1)

\* datetime.toordinal
Ordinal(d) == DaysBeforeYear(d[1]) + DaysBeforeMonth(d[1], d[2]) + d[3]

\* datetime - timedelta(days=n) as an ordinal
MinusDays(d, n) == Ordinal(d) - n

\* dt + relativedelta(months=n): the month moves, the day is cut to the
\* length of the month reached
AddMonths(d, n) ==
    LET total == d[1] * 12 + (d[2] - 1) + n
        y == total \div 12
        m == (total % 12) + 1
    IN <<y, m, Min(d[3], DaysInMonth(y, m))>>

\* relativedelta(dt1, dt2): the loop that corrects the month difference
RECURSIVE AdjustMonths(_, _, _)
AdjustMonths(dt1, dt2, months) ==
    LET dtm == AddMonths(dt2, months) IN
    IF DateLT(dt1, dt2)
    THEN (IF DateLT(dtm, dt1) THEN AdjustMonths(dt1, dt2, months + 1)
          ELSE months)
    ELSE (IF DateLT(dt1, dtm) THEN AdjustMonths(dt1, dt2, months - 1)
          ELSE months)

\* SetMonths dropping the sign
SetMonthsUnsigned(months) ==
    LET sign == IF months < 0 THEN -1 ELSE 1
        abs == months * sign
    IN [years |-> abs \div 12, months |-> abs % 12]

\* relativedelta._set_months: years and months carry the sign of the total
SetMonths(months) ==
    LET sign == IF months < 0 THEN -1 ELSE 1
        abs == months * sign
    IN [years |-> sign * (abs \div 12), months |-> sign * (abs % 12)]

\* relativedelta(dt1, dt2), its years and months
relativedelta(dt1, dt2) ==
    SetMonths(AdjustMonths(dt1, dt2,
                           (dt1[1] - dt2[1]) * 12 + (dt1[2] - dt2[2])))

(***************************************************************************)
(* The request log: every request a script issues, with the iteration of   *)
(* the script's loop that issued it (0 outside a loop) and whether the     *)
(* client saw it succeed.                                                  *)
(***************************************************************************)
Req(kind, at, id, url, tags, page, ok) ==
    [kind |-> kind, at |-> at, id |-> id, url |-> url, tags |-> tags,
     page |-> page, ok |-> ok]

\* the page requests of one fetch that issued n of them, the last of which
\* failed when failed is set
ListReqs(at, n, failed) ==
    [p \in 1..n |-> Req("list", at, Null, NoUrl, NoTags, p, ~(failed /\ p = n))]

(***************************************************************************)
(* archive.is: get_existing_archive and submit_to_archive.                 *)
(***************************************************************************)
ArchiveBase == [scheme |-> "https", host |-> ArchiveHost, path |-> <<>>]

\* Location headers: a relative snapshot path, the same snapshot as an
\* absolute URL, and a relative /newest/ redirect
RelLoc == [scheme |-> "", host |-> <<>>, path |-> <<"/abcd">>]
AbsLoc == [scheme |-> "https", host |-> ArchiveHost, path |-> <<"/abcd">>]
NewestLoc == [scheme |-> "", host |-> <<>>, path |-> <<"/newest/", "x">>]

ArchiveResponse(exc, status, has_location, location) ==
    [exc |-> exc, status |-> status, has_location |-> has_location,
     location |-> location]

\* what archive.is can answer that is no snapshot redirect: a transport
\* error, a page, a redirect without Location
NoRedirects ==
    {ArchiveResponse(TRUE, 0, FALSE, NoUrl),
     ArchiveResponse(FALSE, 200, FALSE, NoUrl),
     ArchiveResponse(FALSE, 302, FALSE, NoUrl),
     ArchiveResponse(FALSE, 200, TRUE, RelLoc)}

Redirects(locs) ==
    {ArchiveResponse(FALSE, st, TRUE, loc) : st \in {301, 302}, loc \in locs}

\* the answers to GET /newest/{url} and to POST /submit/
LookupResponses == NoRedirects \cup Redirects({RelLoc, AbsLoc, NewestLoc})
SubmitResponses == NoRedirects \cup Redirects({RelLoc, AbsLoc})

\* urllib.parse.urljoin(base, loc) for an absolute loc or an absolute path
Urljoin(base, loc) ==
    IF loc.scheme # "" THEN loc
    ELSE [scheme |-> base.scheme, host |-> base.host, path |-> loc.path]

\* loc.startswith('/newest/')
IsNewestPath(loc) ==
    loc.scheme = "" /\ loc.host = <<>> /\ StartsWith(loc.path, <<"/newest/">>)

get_existing_archive(resp) ==
    IF /\ ~resp.exc
       /\ resp.status \in {301, 302}
       /\ resp.has_location
       /\ ~IsNewestPath(resp.location)
    THEN Urljoin(ArchiveBase, resp.location)
    ELSE NoUrl

submit_to_archive(resp) ==
    IF ~resp.exc /\ resp.status \in {301, 302} /\ resp.has_location
    THEN IF resp.location.scheme \notin {"http", "https"}
         THEN Urljoin(ArchiveBase, resp.location)
         ELSE resp.location
    ELSE NoUrl

(***************************************************************************)
(* process_articles: the candidate filter.                                 *)
(***************************************************************************)
\* article.get('url') or article.get('origin_url')
ArticleUrl(article) ==
    IF article.url # NoUrl THEN article.url ELSE article.origin_url

\* urllib.parse.urlparse(article_url).hostname or ''
Hostname(url) == url.host

\* any(hostname.endswith(h) for h in paywall_hosts)
IsPaywalled(url) ==
    \E k \in 1..Len(paywall_hosts) : EndsWith(Hostname(url), paywall_hosts[k])

\* dict.get('reading_time', 0)
ReadingTimeOr0(article) ==
    IF article.reading_time = Absent THEN 0 ELSE article.reading_time

\* TooLong with the comparison weakened to >=
TooLongAtThreshold(reading_time) ==
    reading_time = Null \/ reading_time >= ReadingThreshold

\* reading_time is None or reading_time > 2
TooLong(reading_time) ==
    reading_time = Null \/ reading_time > ReadingThreshold

\* the three `continue` guards at the head of the loop body
IsCandidate(article) ==
    /\ ArticleUrl(article) # NoUrl
    /\ IsPaywalled(ArticleUrl(article))
    /\ ~TooLong(ReadingTimeOr0(article))

(***************************************************************************)
(* The catalog service's create and delete.                                *)
(***************************************************************************)
HasId(cat, id) == \E k \in 1..Len(cat) : cat[k].id = id

\* POST /api/entries.json: the service stores the entry under the URL and
\* with the reading time it extracts
CreateEntry(cat, id, url, reading_time, tags) ==
    Append(cat, [Entry(id, url, NoUrl, reading_time) EXCEPT !.tags = tags])

\* DELETE /api/entries/{id}.json
DeleteEntry(cat, id) == SelectSeq(cat, LAMBDA e : e.id # id)

\* next((a for a in new_articles if a.get('url') == archive_url
\*       or a.get('origin_url') == archive_url), None)
FindByUrl(new_articles, archive_url) ==
    LET matches == {k \in 1..Len(new_articles) :
                        \/ new_articles[k].url = archive_url
                        \/ new_articles[k].origin_url = archive_url}
    IN IF matches = {} THEN NoEntry
       ELSE new_articles[CHOOSE k \in matches : \A j \in matches : k <= j]

\* IsReadable with the comparison weakened to >=
IsReadableAtThreshold(new_item) ==
    new_item # NoEntry /\ new_item.reading_time >= ReadingThreshold

\* new_item and new_item.get('reading_time', 0) > 2, for a new_item whose
\* reading time is not None
IsReadable(new_item) ==
    new_item # NoEntry /\ ReadingTimeOr0(new_item) > ReadingThreshold

\* the comparison raises TypeError when the reading time is None
RaisesTypeError(new_item) ==
    new_item # NoEntry /\ ReadingTimeOr0(new_item) = Null

(***************************************************************************)
(* process_articles: one iteration of the loop.                            *)
(***************************************************************************)
\* FindArchive submitting whatever the lookup found
FindArchiveAlwaysSubmits(article_url, at, lookup, submit) ==
    LET existing == get_existing_archive(lookup)
        submitted == submit_to_archive(submit)
    IN [archive_url |-> IF existing # NoUrl THEN existing ELSE submitted,
        reqs |-> <<Req("lookup", at, Null, article_url, NoTags, 0,
                       existing # NoUrl),
                   Req("submit", at, Null, article_url, NoTags, 0,
                       submitted # NoUrl)>>]

\* lines 186-189: the lookup, and the submission when it found nothing
FindArchive(article_url, at, lookup, submit) ==
    LET existing == get_existing_archive(lookup)
        lookup_req == Req("lookup", at, Null, article_url, NoTags, 0,
                          existing # NoUrl)
        submitted == submit_to_archive(submit)
        submit_req == Req("submit", at, Null, article_url, NoTags, 0,
                          submitted # NoUrl)
    IN IF existing # NoUrl
       THEN [archive_url |-> existing, reqs |-> <<lookup_req>>]
       ELSE [archive_url |-> submitted, reqs |-> <<lookup_req, submit_req>>]

\* how the services answer while a candidate is replaced: whether the
\* create request succeeds, whether the service stores the entry under the
\* very URL it was given, the reading time it extracts, the page of the
\* re-fetch that fails (0: none) and whether the delete request succeeds
Answers(cat) ==
    [add_ok : BOOLEAN, same_url : BOOLEAN, reading_time : {Null, 2, 3},
     fault : 0..NumPages(cat), del_ok : BOOLEAN]

\* the answers explored: the successful replacement, and every answer that
\* differs from it in one respect
Deviations(o) ==
    {f \in {"add_ok", "same_url", "del_ok"} : ~o[f]}
    \cup (IF o.reading_time # 3 THEN {"reading_time"} ELSE {})
    \cup (IF o.fault # 0 THEN {"fault"} ELSE {})

ReplaceAnswers(cat) == {o \in Answers(cat) : Cardinality(Deviations(o)) <= 1}

\* the URL the service stores a created entry under
StoredUrl(url, same_url) ==
    IF same_url THEN url ELSE [url EXCEPT !.scheme = "http"]

\* IsLive with the dry-run flag ignored
IsLiveAlways(dry) == TRUE

\* line 194: the live branch is taken
IsLive(dry) == ~dry

\* AddRequest attaching the tag to the original entry
AddRequestTagsOriginal(article, archive_url, at, ok) ==
    Req("tag_add", at, article.id, NoUrl, {"archived"}, 0, ok)

\* line 195 with lines 106-113: the create request of
\* add_article_to_wallabag(instance_url, archive_url, tags_list=['archived'])
AddRequest(article, archive_url, at, ok) ==
    Req("create", at, Null, archive_url, {"archived"}, 0, ok)

\* lines 195-199: add the archive URL, re-fetch, verify, delete the original
Replace(article, archive_url, at, cat, nid, o) ==
    LET article_id == article.id
        add_req == AddRequest(article, archive_url, at, o.add_ok)
        cat1 == CreateEntry(cat, nid, StoredUrl(archive_url, o.same_url),
                            o.reading_time, {"archived"})
        fetched == get_unread_articles(Listing(cat1, o.fault))
        list_reqs == ListReqs(at, fetched.requests,
                              o.fault # 0 /\ o.fault = fetched.requests)
        new_item == FindByUrl(fetched.articles, archive_url)
        deleted == o.del_ok /\ HasId(cat1, article_id)
        del_req == Req("delete", at, article_id, NoUrl, NoTags, 0, deleted)
    IN IF ~o.add_ok
       THEN [server |-> cat, next_id |-> nid, reqs |-> <<add_req>>,
             crashed |-> FALSE]
       ELSE IF RaisesTypeError(new_item)
       THEN [server |-> cat1, next_id |-> nid + 1,
             reqs |-> <<add_req>> \o list_reqs, crashed |-> TRUE]
       ELSE IF IsReadable(new_item)
       THEN [server |-> IF deleted THEN DeleteEntry(cat1, article_id) ELSE cat1,
             next_id |-> nid + 1,
             reqs |-> <<add_req>> \o list_reqs \o <<del_req>>,
             crashed |-> FALSE]
       ELSE [server |-> cat1, next_id |-> nid + 1,
             reqs |-> <<add_req>> \o list_reqs, crashed |-> FALSE]

(***************************************************************************)
(* The catalog service's tag requests.                                     *)
(***************************************************************************)
\* POST /api/entries/{id}/tags
AddTag(cat, id, label) ==
    [k \in 1..Len(cat) |->
        IF cat[k].id = id THEN [cat[k] EXCEPT !.tags = @ \cup {label}]
        ELSE cat[k]]

\* DELETE /api/entries/{id}/tags/{tagId}
RemoveTag(cat, id, label) ==
    [k \in 1..Len(cat) |->
        IF cat[k].id = id THEN [cat[k] EXCEPT !.tags = @ \ {label}]
        ELSE cat[k]]

\* the catalog after the service served the tag requests that succeeded
RECURSIVE ApplyTagReqs(_, _)
ApplyTagReqs(cat, rs) ==
    IF rs = <<>> THEN cat
    ELSE LET r == Head(rs)
             label == CHOOSE l \in r.tags : TRUE
             cat1 == IF ~r.ok THEN cat
                     ELSE IF r.kind = "tag_add" THEN AddTag(cat, r.id, label)
                     ELSE IF r.kind = "tag_del" THEN RemoveTag(cat, r.id, label)
                     ELSE cat
         IN ApplyTagReqs(cat1, Tail(rs))

(***************************************************************************)
(* wallabag_labeler.py: what one iteration of each labelling loop does     *)
(* with its article: the requests it issues, the counters it increments    *)
(* and whether an exception leaves the function.                           *)
(***************************************************************************)
\* article.get(key): None for a missing key
Get(v) == IF v = Absent THEN Null ELSE v

\* 10 * 1024
MinSize == 10240

\* IsBroken with the size limit included
IsBrokenAtMinSize(article) ==
    \/ Get(article.pages) = 0
    \/ Get(article.size) # Null /\ Get(article.size) <= MinSize
    \/ Get(article.reading_time) = 0

\* lines 160-177: is_broken
IsBroken(article) ==
    \/ Get(article.pages) = 0
    \/ Get(article.size) # Null /\ Get(article.size) < MinSize
    \/ Get(article.reading_time) = 0

StepResult(rs, labeled, old, very_old, crashed) ==
    [reqs |-> rs, labeled |-> labeled, old |-> old, very_old |-> very_old,
     crashed |-> crashed]

Nothing == StepResult(<<>>, 0, 0, 0, FALSE)

\* BrokenStep without the check of the tags already attached
BrokenStepRechecks(article, at, dry, ok) ==
    IF article.id = Null THEN Nothing
    ELSE IF ~IsBroken(article) THEN Nothing
    ELSE IF dry THEN StepResult(<<>>, 1, 0, 0, FALSE)
    ELSE StepResult(<<Req("tag_add", at, article.id, NoUrl, {"broken"}, 0, ok)>>,
                    IF ok THEN 1 ELSE 0, 0, 0, FALSE)

\* BrokenStep counting the additions that failed
BrokenStepCountsFailures(article, at, dry, ok) ==
    IF article.id = Null THEN Nothing
    ELSE IF "broken" \in article.tags THEN Nothing
    ELSE IF ~IsBroken(article) THEN Nothing
    ELSE IF dry THEN StepResult(<<>>, 1, 0, 0, FALSE)
    ELSE StepResult(<<Req("tag_add", at, article.id, NoUrl, {"broken"}, 0, ok)>>,
                    1, 0, 0, FALSE)

\* BrokenStep repeating an addition that failed
BrokenStepRetries(article, at, dry, ok) ==
    LET add_req == Req("tag_add", at, article.id, NoUrl, {"broken"}, 0, ok) IN
    IF article.id = Null THEN Nothing
    ELSE IF "broken" \in article.tags THEN Nothing
    ELSE IF ~IsBroken(article) THEN Nothing
    ELSE IF dry THEN StepResult(<<>>, 1, 0, 0, FALSE)
    ELSE StepResult(IF ok THEN <<add_req>> ELSE <<add_req, add_req>>,
                    IF ok THEN 1 ELSE 0, 0, 0, FALSE)

\* the body of the loop of label_broken_articles
BrokenStep(article, at, dry, ok) ==
    IF article.id = Null THEN Nothing
    ELSE IF "broken" \in article.tags THEN Nothing
    ELSE IF ~IsBroken(article) THEN Nothing
    ELSE IF dry THEN StepResult(<<>>, 1, 0, 0, FALSE)
    ELSE StepResult(<<Req("tag_add", at, article.id, NoUrl, {"broken"}, 0, ok)>>,
                    IF ok THEN 1 ELSE 0, 0, 0, FALSE)

\* lines 270-279: the offset is cut off the string
StripOffset(c) ==
    IF c.shape # "iso" THEN c
    ELSE IF c.suffix = "Z" THEN [c EXCEPT !.suffix = ""]
    ELSE IF c.suffix \in {"+00:00", "+0000"} THEN [c EXCEPT !.suffix = ""]
    ELSE IF c.suffix \in {"-05:00"} THEN [c EXCEPT !.suffix = ""]
    ELSE c

\* FromIsoformat accepting every string
FromIsoformatAnything(c, py) == TRUE

\* datetime.fromisoformat accepts the string; before Python 3.11 it accepts
\* neither a trailing Z nor an offset without colon
FromIsoformat(c, py) ==
    /\ c.shape = "iso"
    /\ c.suffix \in {"", "+00:00", "-05:00"} \/ (py /\ c.suffix \in {"Z", "+0000"})

\* timedelta(days=3*30)
OldDays == 90

\* OldStep with a dry run that counts nothing
OldStepDryUncounted(article, at, dry, today, py, ok) ==
    LET c == article.created_at IN
    IF article.id = Null \/ dry THEN Nothing
    ELSE IF c.kind # "str" THEN Nothing
    ELSE IF ~FromIsoformat(StripOffset(c), py) THEN Nothing
    ELSE IF ~(Ordinal(c.date) < MinusDays(today, OldDays)) THEN Nothing
    ELSE StepResult(<<Req("tag_add", at, article.id, NoUrl, {"old"}, 0, ok)>>,
                    IF ok THEN 1 ELSE 0, 0, 0, FALSE)

\* OldStep with the 90th day included
OldStepFromDay90(article, at, dry, today, py, ok) ==
    LET c == article.created_at IN
    IF article.id = Null THEN Nothing
    ELSE IF c.kind # "str" THEN Nothing
    ELSE IF ~FromIsoformat(StripOffset(c), py) THEN Nothing
    ELSE IF ~(Ordinal(c.date) <= MinusDays(today, OldDays)) THEN Nothing
    ELSE IF dry THEN StepResult(<<>>, 1, 0, 0, FALSE)
    ELSE StepResult(<<Req("tag_add", at, article.id, NoUrl, {"old"}, 0, ok)>>,
                    IF ok THEN 1 ELSE 0, 0, 0, FALSE)

\* the body of the loop of label_old_articles
OldStep(article, at, dry, today, py, ok) ==
    LET c == article.created_at IN
    IF article.id = Null THEN Nothing
    ELSE IF c.kind = "missing" THEN Nothing
    ELSE IF c.kind # "str" THEN Nothing
    ELSE IF ~FromIsoformat(StripOffset(c), py) THEN Nothing
    ELSE IF ~(Ordinal(c.date) < MinusDays(today, OldDays)) THEN Nothing
    ELSE IF dry THEN StepResult(<<>>, 1, 0, 0, FALSE)
    ELSE StepResult(<<Req("tag_add", at, article.id, NoUrl, {"old"}, 0, ok)>>,
                    IF ok THEN 1 ELSE 0, 0, 0, FALSE)

\* LabelToApply with very-old given only after more than a year
LabelToApplyAfterAYear(today, date) ==
    LET time_difference == relativedelta(today, date) IN
    IF time_difference.years > 1 THEN "very-old"
    ELSE IF time_difference.months >= 3 THEN "old"
    ELSE ""

\* lines 394-401: label_to_apply ("" for None)
LabelToApply(today, date) ==
    LET time_difference == relativedelta(today, date) IN
    IF time_difference.years >= 1 THEN "very-old"
    ELSE IF time_difference.months >= 3 THEN "old"
    ELSE ""

\* IsSettled that holds for no entry
IsSettledNever(tags) == FALSE

\* line 390: "very-old" in current_tags and 'old' not in current_tags
IsSettled(tags) == "very-old" \in tags /\ "old" \notin tags

\* NeedsRemoval that never asks for the removal
NeedsRemovalNever(label, tags) == FALSE

\* line 411: label_to_apply == 'very-old' and 'old' in current_tags
NeedsRemoval(label, tags) == label = "very-old" /\ "old" \in tags

\* the body of the loop of label_old_very_old_articles; labeled_count is
\* incremented nowhere
OldVeryOldStep(article, at, dry, today, py, del_ok, add_ok) ==
    LET c == article.created_at
        label == LabelToApply(today, c.date)
        removal == NeedsRemoval(label, article.tags)
        del_req == Req("tag_del", at, article.id, NoUrl, {"old"}, 0, del_ok)
        add_req == Req("tag_add", at, article.id, NoUrl, {label}, 0, add_ok)
        old == IF label = "old" THEN 1 ELSE 0
        very_old == IF label = "very-old" THEN 1 ELSE 0
    IN
    IF article.id = Null THEN Nothing
    ELSE IF c.kind = "missing" THEN Nothing
    ELSE IF c.kind # "str" THEN Nothing
    ELSE IF ~FromIsoformat(c, py) THEN Nothing
    ELSE IF IsSettled(article.tags) THEN Nothing
    ELSE IF label = "" THEN Nothing
    ELSE IF dry THEN StepResult(<<>>, 0, old, very_old, FALSE)
    ELSE IF removal /\ ~del_ok THEN StepResult(<<del_req>>, 0, 0, 0, TRUE)
    ELSE StepResult((IF removal THEN <<del_req>> ELSE <<>>) \o <<add_req>>,
                    0,
                    IF add_ok THEN old ELSE 0,
                    IF add_ok THEN very_old ELSE 0,
                    FALSE)

(***************************************************************************)
(* The labelling functions as functions of their list of entries: the     *)
(* loop runs the steps in order and stops at the step that raises.         *)
(***************************************************************************)
RECURSIVE RunOf(_)
RunOf(steps) ==
    IF steps = <<>> THEN Nothing
    ELSE LET s == Head(steps)
             r == IF s.crashed THEN Nothing ELSE RunOf(Tail(steps))
         IN StepResult(s.reqs \o r.reqs, s.labeled + r.labeled,
                       s.old + r.old, s.very_old + r.very_old,
                       s.crashed \/ r.crashed)

\* label_broken_articles(instance_url, arts, dry_run=dry) when every request
\* is answered ok; .labeled is the value returned
label_broken_articles(arts, dry, ok) ==
    RunOf([k \in 1..Len(arts) |-> BrokenStep(arts[k], k, dry, ok)])

label_old_articles(arts, dry, today, py, ok) ==
    RunOf([k \in 1..Len(arts) |-> OldStep(arts[k], k, dry, today, py, ok)])

label_old_very_old_articles(arts, dry, today, py, ok) ==
    RunOf([k \in 1..Len(arts) |->
              OldVeryOldStep(arts[k], k, dry, today, py, ok, ok)])

(***************************************************************************)
(* The clock and the entries of the labeller's runs.                       *)
(***************************************************************************)
\* datetime.utcnow(), the same day throughout a run
utcnow == <<2024, 5, 31>>

\* the entries a catalog of the labeller's runs is drawn from: each quality
\* rule alone, the size on either side of the limit, fields null and
\* missing, an id missing, tags already attached; ages of 30 days, exactly
\* 90 days, 91 days (less than three calendar months), four and five months,
\* exactly one year, two years and a date more than a year in the future,
\* written with every offset notation, and dates that are no date
LabelerPool ==
    {LEntry(1, 0, 20000, 5, Iso(<<2024, 1, 31>>, "+00:00"), {}),
     LEntry(1, 10, 10239, 5, Iso(<<2023, 5, 31>>, ""), {"old"}),
     LEntry(1, 10, 10240, 0, Iso(<<2024, 5, 1>>, "Z"), {}),
     LEntry(1, 10, 10240, 1, Iso(<<2024, 3, 1>>, "+0000"), {}),
     LEntry(Null, 0, 100, 0, Iso(<<2022, 1, 1>>, ""), {}),
     LEntry(1, Null, Null, Null, Garbage, {}),
     LEntry(1, Absent, Absent, Absent, MissingDate, {}),
     LEntry(1, 0, 100, 0, Iso(<<2022, 5, 31>>, ""), {"broken", "very-old"}),
     LEntry(1, 10, 20000, 5, Iso(<<2023, 12, 31>>, "-05:00"), {"old"}),
     LEntry(1, 10, Null, 5, Iso(<<2025, 8, 31>>, ""), {"old", "very-old"}),
     LEntry(1, 0, 20000, 5, NotAString, {}),
     LEntry(1, 10, 20000, 5, Iso(<<2024, 3, 2>>, ""), {}),
     LEntry(1, 10, 20000, 5, Iso(<<2023, 11, 30>>, ""), {"old", "very-old"})}

(***************************************************************************)
(* wallabag_rss_importer.py: the feed and is_recent_article.               *)
(***************************************************************************)
\* a date string with its time of day: minutes after the time of day of now
At(c, minutes) ==
    [kind |-> c.kind, shape |-> c.shape, suffix |-> c.suffix, date |-> c.date,
     minutes |-> minutes]

\* {'url': article_url, 'published_date': published_date_str}; the date is
\* held in created_at
FeedItem(url, published_date) ==
    [Entry(Null, url, NoUrl, Absent) EXCEPT !.created_at = published_date]

\* the items of a feed: published 30 days ago, 31 days ago, in the future,
\* and with a date that does not parse
FeedPool ==
    {FeedItem(ExampleD, At(Iso(<<2024, 5, 1>>, "Z"), 0)),
     FeedItem(WsjA, At(Iso(<<2024, 4, 30>>, ""), 0)),
     FeedItem(WsjB, At(Iso(<<2024, 6, 1>>, ""), 0)),
     FeedItem(ExampleD, At(Garbage, 0))}

Feeds == UNION {[1..n -> FeedPool] : n \in 0..MaxEntries}

\* days=30, the default of is_recent_article, which main relies on
RecentDays == 30

\* timedelta(days=days, minutes=1): the minutes of tolerance
ToleranceMinutes == 1

MinutesPerDay == 1440

\* now - article_date in minutes, now being `today` at some time of day and
\* the article being dated c.date at that time of day plus c.minutes
Elapsed(today, c) ==
    (Ordinal(today) - Ordinal(c.date)) * MinutesPerDay - c.minutes

\* is_recent_article without the minute of tolerance
is_recent_article_to_the_minute(published_date_str, today, d) ==
    /\ published_date_str.kind = "str"
    /\ published_date_str.shape = "iso"
    /\ ~(Elapsed(today, published_date_str) < 0)
    /\ Elapsed(today, published_date_str) <= d * MinutesPerDay

\* is_recent_article(published_date_str, days=d): False for a falsy string,
\* for one dateutil cannot parse and for a date after now
is_recent_article(published_date_str, today, d) ==
    /\ published_date_str.kind = "str"
    /\ published_date_str.shape = "iso"
    /\ ~(Elapsed(today, published_date_str) < 0)
    /\ Elapsed(today, published_date_str)
            <= d * MinutesPerDay + ToleranceMinutes

(***************************************************************************)
(* The runs.                                                               *)
(***************************************************************************)
\* done: the bool add_article_to_wallabag / delete_article_from_wallabag
\* returned, as 1 / 0
NothingReturned ==
    [broken |-> Null, old |-> Null, old_very_old |-> Null, done |-> Null]

Init ==
    /\ script \in {"archiver", "labeler", "label_old", "rss"}
    /\ pc = "start"
    /\ token = FALSE
    /\ dry_run \in BOOLEAN
    /\ reading_threshold \in (IF script = "archiver" THEN {Absent, 2, 3}
                              ELSE {Absent})
    /\ py311 \in (IF script = "labeler" THEN BOOLEAN ELSE {TRUE})
    /\ server \in (IF script = "archiver" THEN Catalogs(ArchiverPool)
                   ELSE IF script = "rss" THEN {<<>>}
                   ELSE Catalogs(LabelerPool))
    /\ server0 = server
    /\ next_id = MaxEntries + 1
    /\ articles = <<>>
    /\ idx = 0
    /\ reqs = <<>>
    /\ labeled_count = 0
    /\ labeled_old_count = 0
    /\ labeled_very_old_count = 0
    /\ total_articles_added_to_wallabag = 0
    /\ returned = NothingReturned
    /\ missing_creds = {}
    /\ reported = {}
    /\ responses = <<>>
    /\ days = RecentDays

\* the configuration fields main reads from the command line or the
\* environment
Fields == {"client_id", "client_secret", "username", "password",
           "instance_url"}

\* the fields that may be found missing when the script starts
MissingSets(s) ==
    IF s \in {"archiver", "labeler", "rss"}
    THEN {{}, {"client_id"}, {"username", "instance_url"}}
    ELSE {{}}

\* main collects missing_creds and logs each of them before it ends the run
\* (labeller, RSS importer); the archiver's main has no such check
ChecksConfiguration(s) == s \in {"labeler", "rss"}

\* get_wallabag_token: all([instance_url, client_id, client_secret,
\* username, password])
HasCredentials(missing) == missing = {}

\* main: the configuration it finds, get_wallabag_token, and the return
\* when no token was obtained.  reported is the set of fields the error log
\* names as missing: get_wallabag_token's message names none in particular
Authenticate ==
    /\ pc = "start"
    /\ \E missing \in MissingSets(script) :
        /\ missing_creds' = missing
        /\ IF ChecksConfiguration(script) /\ missing # {}
           THEN /\ reported' = missing
                /\ pc' = "done"
                /\ UNCHANGED <<token, reqs>>
           ELSE IF ~HasCredentials(missing)
           THEN /\ reported' = {}
                /\ pc' = "done"
                /\ UNCHANGED <<token, reqs>>
           ELSE \E ok \in BOOLEAN :
                /\ token' = ok
                /\ reqs' = Append(reqs, Req("token", 0, Null, NoUrl, NoTags,
                                            0, ok))
                /\ pc' = IF ok THEN "authed" ELSE "done"
                /\ reported' = {}
    /\ UNCHANGED <<inputs, counters, server, next_id, articles, idx,
                   responses>>

\* the call of process_articles and its first statement, the fetch; a call
\* that passes reading_threshold raises TypeError, the function having no
\* such parameter
ProcessArticlesCall ==
    /\ pc = "authed"
    /\ script = "archiver"
    /\ IF reading_threshold # Absent
       THEN /\ pc' = "TypeError"
            /\ UNCHANGED <<articles, idx, reqs>>
       ELSE \E fault \in 0..NumPages(server) :
            LET fetched == get_unread_articles(Listing(server, fault)) IN
            /\ articles' = fetched.articles
            /\ reqs' = reqs \o ListReqs(0, fetched.requests,
                                        fault # 0 /\ fault = fetched.requests)
            /\ idx' = 1
            /\ pc' = "loop"
    /\ UNCHANGED <<inputs, config, responses, counters, token, server, next_id>>

\* one iteration of the loop of process_articles
ProcessArticle ==
    /\ pc = "loop"
    /\ script = "archiver"
    /\ idx <= Len(articles)
    /\ LET article == articles[idx] IN
       IF ~IsCandidate(article)
       THEN /\ idx' = idx + 1
            /\ UNCHANGED <<pc, server, next_id, reqs>>
       ELSE \E found \in {FindArchive(ArticleUrl(article), idx, lookup, submit) :
                            lookup \in LookupResponses,
                            submit \in SubmitResponses} :
            IF found.archive_url = NoUrl \/ ~IsLive(dry_run)
            THEN /\ reqs' = reqs \o found.reqs
                 /\ idx' = idx + 1
                 /\ UNCHANGED <<pc, server, next_id>>
            ELSE \E done \in {Replace(article, found.archive_url, idx,
                                      server, next_id, o) :
                                o \in ReplaceAnswers(server)} :
                 /\ reqs' = reqs \o found.reqs \o done.reqs
                 /\ server' = done.server
                 /\ next_id' = done.next_id
                 /\ idx' = idx + 1
                 /\ pc' = IF done.crashed THEN "crashed" ELSE "loop"
    /\ UNCHANGED <<inputs, config, responses, counters, token, articles>>

\* the loop is over: process_articles and main return
ProcessArticlesReturn ==
    /\ pc = "loop"
    /\ script = "archiver"
    /\ idx > Len(articles)
    /\ pc' = "done"
    /\ UNCHANGED <<inputs, config, responses, counters, token, server, next_id, articles, idx,
                   reqs>>

(***************************************************************************)
(* wallabag_labeler.py, main: the fetch, label_broken_articles, then       *)
(* label_old_very_old_articles over the list that was fetched.             *)
(***************************************************************************)
\* articles = get_all_articles(instance_url), and the call of
\* label_broken_articles
GetAllArticles ==
    /\ pc = "authed"
    /\ script = "labeler"
    /\ \E fault \in 0..NumPages(server) :
        LET fetched == get_all_articles(Listing(server, fault)) IN
        /\ articles' = fetched.articles
        /\ reqs' = reqs \o ListReqs(0, fetched.requests,
                                    fault # 0 /\ fault = fetched.requests)
    /\ idx' = 1
    /\ pc' = "broken"
    /\ UNCHANGED <<inputs, config, responses, counters, token, server, next_id>>

\* one iteration of the loop of label_broken_articles
LabelBroken ==
    /\ pc = "broken"
    /\ idx <= Len(articles)
    /\ \E step \in {BrokenStep(articles[idx], idx, dry_run, ok) :
                        ok \in BOOLEAN} :
        /\ reqs' = reqs \o step.reqs
        /\ server' = ApplyTagReqs(server, step.reqs)
        /\ labeled_count' = labeled_count + step.labeled
    /\ idx' = idx + 1
    /\ UNCHANGED <<inputs, config, responses, pc, token, next_id, articles, labeled_old_count,
                   labeled_very_old_count, total_articles_added_to_wallabag,
                   returned>>

\* label_broken_articles returns labeled_count; main calls
\* label_old_very_old_articles
LabelBrokenReturn ==
    /\ pc = "broken"
    /\ idx > Len(articles)
    /\ returned' = [returned EXCEPT !.broken = labeled_count]
    /\ labeled_count' = 0
    /\ idx' = 1
    /\ pc' = "old_very_old"
    /\ UNCHANGED <<inputs, config, responses, token, server, next_id, articles, reqs,
                   labeled_old_count, labeled_very_old_count,
                   total_articles_added_to_wallabag>>

\* one iteration of the loop of label_old_very_old_articles; the exception
\* of a failed tag removal leaves the function and main
LabelOldVeryOld ==
    /\ pc = "old_very_old"
    /\ idx <= Len(articles)
    /\ \E step \in {OldVeryOldStep(articles[idx], idx, dry_run, utcnow, py311,
                                    del_ok, add_ok) :
                        del_ok \in BOOLEAN, add_ok \in BOOLEAN} :
        /\ reqs' = reqs \o step.reqs
        /\ server' = ApplyTagReqs(server, step.reqs)
        /\ labeled_count' = labeled_count + step.labeled
        /\ labeled_old_count' = labeled_old_count + step.old
        /\ labeled_very_old_count' = labeled_very_old_count + step.very_old
        /\ pc' = IF step.crashed THEN "crashed" ELSE "old_very_old"
    /\ idx' = idx + 1
    /\ UNCHANGED <<inputs, config, responses, token, next_id, articles,
                   total_articles_added_to_wallabag, returned>>

\* label_old_very_old_articles returns labeled_count; main is over
LabelOldVeryOldReturn ==
    /\ pc = "old_very_old"
    /\ idx > Len(articles)
    /\ returned' = [returned EXCEPT !.old_very_old = labeled_count]
    /\ pc' = "done"
    /\ UNCHANGED <<inputs, config, responses, token, server, next_id, articles, idx, reqs,
                   labeled_count, labeled_old_count, labeled_very_old_count,
                   total_articles_added_to_wallabag>>

(***************************************************************************)
(* label_old_articles, called with the token set and a list of entries.    *)
(***************************************************************************)
LabelOldArticlesCall ==
    /\ pc = "authed"
    /\ script = "label_old"
    /\ articles' = server
    /\ idx' = 1
    /\ pc' = "old"
    /\ UNCHANGED <<inputs, config, responses, counters, token, server, next_id, reqs>>

\* one iteration of the loop of label_old_articles
LabelOld ==
    /\ pc = "old"
    /\ idx <= Len(articles)
    /\ \E step \in {OldStep(articles[idx], idx, dry_run, utcnow, py311, ok) :
                        ok \in BOOLEAN} :
        /\ reqs' = reqs \o step.reqs
        /\ server' = ApplyTagReqs(server, step.reqs)
        /\ labeled_count' = labeled_count + step.labeled
    /\ idx' = idx + 1
    /\ UNCHANGED <<inputs, config, responses, pc, token, next_id, articles, labeled_old_count,
                   labeled_very_old_count, total_articles_added_to_wallabag,
                   returned>>

LabelOldReturn ==
    /\ pc = "old"
    /\ idx > Len(articles)
    /\ returned' = [returned EXCEPT !.old = labeled_count]
    /\ pc' = "done"
    /\ UNCHANGED <<inputs, config, responses, token, server, next_id, articles, idx, reqs,
                   labeled_count, labeled_old_count, labeled_very_old_count,
                   total_articles_added_to_wallabag>>

(***************************************************************************)
(* wallabag_rss_importer.py, main, for one feed.                           *)
(***************************************************************************)
\* articles_data = fetch_articles_from_feed(feed_url)
FetchArticlesFromFeed ==
    /\ pc = "authed"
    /\ script = "rss"
    /\ articles' \in Feeds
    /\ idx' = 1
    /\ pc' = "import"
    /\ UNCHANGED <<inputs, config, responses, counters, token, server, next_id, reqs>>

\* one iteration of the loop over articles_data
ImportArticle ==
    /\ pc = "import"
    /\ idx <= Len(articles)
    /\ LET article_data == articles[idx] IN
       IF ~is_recent_article(article_data.created_at, utcnow, days)
       THEN UNCHANGED <<server, next_id, reqs,
                        total_articles_added_to_wallabag>>
       ELSE IF dry_run
       THEN /\ total_articles_added_to_wallabag' =
                    total_articles_added_to_wallabag + 1
            /\ UNCHANGED <<server, next_id, reqs>>
       ELSE \E ok \in BOOLEAN :
            /\ reqs' = Append(reqs, Req("create", idx, Null, article_data.url,
                                        {"rss"}, 0, ok))
            /\ server' = IF ok THEN CreateEntry(server, next_id,
                                                article_data.url, 3, {"rss"})
                         ELSE server
            /\ next_id' = IF ok THEN next_id + 1 ELSE next_id
            /\ total_articles_added_to_wallabag' =
                    total_articles_added_to_wallabag + (IF ok THEN 1 ELSE 0)
    /\ idx' = idx + 1
    /\ UNCHANGED <<inputs, config, responses, pc, token, articles, labeled_count,
                   labeled_old_count, labeled_very_old_count, returned>>

\* the loop is over: main logs the summary and returns
ImportReturn ==
    /\ pc = "import"
    /\ idx > Len(articles)
    /\ pc' = "done"
    /\ UNCHANGED <<inputs, config, responses, counters, token, server, next_id, articles, idx,
                   reqs>>

Next ==
    \/ Authenticate
    \/ ProcessArticlesCall
    \/ ProcessArticle
    \/ ProcessArticlesReturn
    \/ GetAllArticles
    \/ LabelBroken
    \/ LabelBrokenReturn
    \/ LabelOldVeryOld
    \/ LabelOldVeryOldReturn
    \/ LabelOldArticlesCall
    \/ LabelOld
    \/ LabelOldReturn
    \/ FetchArticlesFromFeed
    \/ ImportArticle
    \/ ImportReturn

Spec == Init /\ [][Next]_vars

(***************************************************************************)
(* The functions called directly, as the unit tests call them; the         *)
(* fetchers against a service that may answer each page request in any     *)
(* way.                                                                    *)
(***************************************************************************)
Fetchers == {"get_all_articles", "get_unread_articles"}

Labellers == {"label_broken_articles", "label_old_articles",
              "label_old_very_old_articles"}

Mutations == {"add_article_to_wallabag", "delete_article_from_wallabag"}

\* the date strings is_recent_article is called with: days and minutes
\* around now, around one day and around thirty days before now, text that
\* is no date, and None / ""
PublishedDates ==
    {At(Iso(date, sfx), m) :
        date \in {<<2024, 4, 30>>, <<2024, 5, 1>>, <<2024, 5, 2>>,
                  <<2024, 5, 29>>, <<2024, 5, 30>>, <<2024, 5, 31>>,
                  <<2024, 6, 5>>},
        sfx \in {"", "+00:00"},
        m \in {-2, -1, 0, 1}}
    \cup {At(Garbage, 0), At(MissingDate, 0)}

\* Authenticated whatever the token
AuthenticatedAlways(tok) == TRUE

\* if not WALLABAG_TOKEN: ... return [] / 0 / False
Authenticated(tok) == tok

\* what a function returns when no token is set: 0 from a labelling
\* function, False from add / delete; the [] of a fetcher is `articles`
EmptyResult(fn) ==
    CASE fn = "label_broken_articles" -> [NothingReturned EXCEPT !.broken = 0]
      [] fn = "label_old_articles" -> [NothingReturned EXCEPT !.old = 0]
      [] fn = "label_old_very_old_articles" ->
            [NothingReturned EXCEPT !.old_very_old = 0]
      [] fn \in Mutations -> [NothingReturned EXCEPT !.done = 0]
      [] OTHER -> NothingReturned

\* the lists the labelling functions are called with
OneEntryLists == {WithIds(<<e>>) : e \in LabelerPool}

\* the catalog add / delete are called against, and their arguments
OneEntryCatalog == <<Entry(1, WsjA, NoUrl, 1)>>

\* the items of the non-empty page that answers the k-th request
ItemsOf(k) == <<10 * k + 1, 10 * k + 2>>

\* what the service may answer to the k-th page request of a fetch
PageResponses(k) ==
    {[kind |-> "ok", items |-> i, page |-> c, pages |-> n] :
        i \in {<<>>, ItemsOf(k)},
        c \in {Absent, 1, k},
        n \in {Absent} \cup 1..MaxPages}
    \cup {ErrorResponse, DecodeError, NoContainer}

CallInit ==
    /\ script \in Fetchers \cup Labellers \cup Mutations
                \cup {"is_recent_article"}
    /\ pc = "call"
    /\ token \in BOOLEAN
    /\ dry_run \in (IF script \in Labellers THEN BOOLEAN ELSE {FALSE})
    /\ reading_threshold = Absent
    /\ py311 = TRUE
    /\ server \in (IF script \in Labellers THEN OneEntryLists
                   ELSE IF script \in Mutations THEN {OneEntryCatalog}
                   ELSE {<<>>})
    /\ server0 = server
    /\ next_id = 2
    /\ articles \in (IF script = "is_recent_article"
                     THEN {<<FeedItem(NoUrl, c)>> : c \in PublishedDates}
                     ELSE {<<>>})
    /\ days \in (IF script = "is_recent_article" THEN {1, RecentDays}
                 ELSE {RecentDays})
    /\ idx = 1
    /\ reqs = <<>>
    /\ labeled_count = 0
    /\ labeled_old_count = 0
    /\ labeled_very_old_count = 0
    /\ total_articles_added_to_wallabag = 0
    /\ returned = NothingReturned
    /\ missing_creds = {}
    /\ reported = {}
    /\ responses = <<>>

\* the function is called while no token is set: it returns its empty
\* result
CallUnauthenticated ==
    /\ pc = "call"
    /\ script # "is_recent_article"
    /\ ~Authenticated(token)
    /\ returned' = EmptyResult(script)
    /\ pc' = "returned"
    /\ UNCHANGED <<inputs, config, token, server, next_id, articles, idx, reqs,
                   responses, labeled_count, labeled_old_count,
                   labeled_very_old_count, total_articles_added_to_wallabag>>

\* a labelling function called with the token set, over a list of one entry
CallLabelling ==
    /\ pc = "call"
    /\ Authenticated(token)
    /\ script \in Labellers
    /\ \E run \in {CASE script = "label_broken_articles" ->
                            label_broken_articles(server, dry_run, ok)
                     [] script = "label_old_articles" ->
                            label_old_articles(server, dry_run, utcnow, py311,
                                               ok)
                     [] script = "label_old_very_old_articles" ->
                            label_old_very_old_articles(server, dry_run,
                                                        utcnow, py311, ok) :
                    ok \in BOOLEAN} :
        /\ reqs' = run.reqs
        /\ server' = ApplyTagReqs(server, run.reqs)
        /\ returned' =
            IF run.crashed THEN returned
            ELSE CASE script = "label_broken_articles" ->
                        [returned EXCEPT !.broken = run.labeled]
                   [] script = "label_old_articles" ->
                        [returned EXCEPT !.old = run.labeled]
                   [] script = "label_old_very_old_articles" ->
                        [returned EXCEPT !.old_very_old = run.labeled]
        /\ pc' = IF run.crashed THEN "crashed" ELSE "returned"
    /\ articles' = server
    /\ UNCHANGED <<inputs, config, token, next_id, idx, responses,
                   labeled_count, labeled_old_count, labeled_very_old_count,
                   total_articles_added_to_wallabag>>

\* add_article_to_wallabag(instance_url, WsjB) and
\* delete_article_from_wallabag(instance_url, 1) called with the token set
CallMutation ==
    /\ pc = "call"
    /\ Authenticated(token)
    /\ script \in Mutations
    /\ \E ok \in BOOLEAN :
        /\ reqs' = IF script = "add_article_to_wallabag"
                   THEN <<Req("create", 0, Null, WsjB, NoTags, 0, ok)>>
                   ELSE <<Req("delete", 0, 1, NoUrl, NoTags, 0, ok)>>
        /\ server' = IF ~ok THEN server
                     ELSE IF script = "add_article_to_wallabag"
                     THEN CreateEntry(server, next_id, WsjB, 3, NoTags)
                     ELSE DeleteEntry(server, 1)
        /\ next_id' = IF ok /\ script = "add_article_to_wallabag"
                      THEN next_id + 1 ELSE next_id
        /\ returned' = [returned EXCEPT !.done = IF ok THEN 1 ELSE 0]
    /\ pc' = "returned"
    /\ UNCHANGED <<inputs, config, token, articles, idx, responses,
                   labeled_count, labeled_old_count, labeled_very_old_count,
                   total_articles_added_to_wallabag>>

\* one pass of the while loop of the fetcher: the request for page idx, the
\* service's answer, and the break or the next page
FetchPage ==
    /\ \/ pc = "call" /\ Authenticated(token)
       \/ pc = "fetching"
    /\ script \in Fetchers
    /\ idx <= MaxRequests
    /\ \E r \in PageResponses(idx) :
        LET s == IF script = "get_all_articles" THEN AllStep(r, articles)
                 ELSE UnreadStep(r, idx, articles)
        IN
        /\ reqs' = Append(reqs, Req("list", 0, Null, NoUrl, NoTags, idx,
                                    r.kind # "error"))
        /\ responses' = Append(responses, r)
        /\ articles' = s.articles
        /\ idx' = IF s.more THEN idx + 1 ELSE idx
        /\ pc' = IF s.more THEN "fetching" ELSE "returned"
    /\ UNCHANGED <<inputs, config, counters, token, server, next_id>>

\* is_recent_article(published_date_str, days=days), which reads no token
CallIsRecentArticle ==
    /\ pc = "call"
    /\ script = "is_recent_article"
    /\ returned' =
        [returned EXCEPT
            !.done = IF is_recent_article(articles[1].created_at, utcnow, days)
                     THEN 1 ELSE 0]
    /\ pc' = "returned"
    /\ UNCHANGED <<inputs, config, token, server, next_id, articles, idx, reqs,
                   responses, labeled_count, labeled_old_count,
                   labeled_very_old_count, total_articles_added_to_wallabag>>

CallNext ==
    \/ CallUnauthenticated
    \/ CallIsRecentArticle
    \/ CallLabelling
    \/ CallMutation
    \/ FetchPage

CallSpec == CallInit /\ [][CallNext]_vars

\* the runs of the scripts and the direct calls together
AllInit == Init \/ CallInit

AllNext == Next \/ CallNext

AllSpec == AllInit /\ [][AllNext]_vars

(***************************************************************************)
(* Reading the request log.                                                *)
(***************************************************************************)
\* the positions of the log that hold a request of the kind
Positions(kind) == {p \in 1..Len(reqs) : reqs[p].kind = kind}

\* the requests issued by iteration k of the loop, in order
ReqsAt(k) == SelectSeq(reqs, LAMBDA r : r.at = k)

\* the kinds of a sequence of requests
Kinds(rs) == [p \in 1..Len(rs) |-> rs[p].kind]

\* the number of times the catalog was fetched: every fetch starts at page 1
FetchCalls == Cardinality({p \in Positions("list") : reqs[p].page = 1})

\* the iterations of the loop that are over
Processed == 1..Min(idx - 1, Len(articles))

\* the catalog holds an entry stored under the URL whose reading time
\* exceeds the threshold
HasReadable(cat, url) ==
    \E k \in 1..Len(cat) :
        /\ cat[k].url = url \/ cat[k].origin_url = url
        /\ cat[k].reading_time > ReadingThreshold

(***************************************************************************)
(* C1: in process_articles the original is deleted only if the re-add of   *)
(* the archive URL succeeded, a re-fetch followed it and the catalog holds *)
(* an entry under exactly the archive URL whose reading time exceeds the   *)
(* threshold; a failed re-add is followed by no re-fetch and no delete; an *)
(* original whose substitute is missing or short is still in the catalog.  *)
(***************************************************************************)
C1_DeleteOnlyAfterVerifiedSubstitute ==
    /\ \A p \in Positions("delete") :
        \E q \in Positions("create"), f \in Positions("list") :
            /\ q < f /\ f < p
            /\ reqs[q].at = reqs[p].at /\ reqs[f].at = reqs[p].at
            /\ reqs[q].ok
            /\ HasReadable(server, reqs[q].url)
    /\ \A q \in Positions("create") :
        ~reqs[q].ok =>
            \A p \in 1..Len(reqs) :
                reqs[p].at = reqs[q].at => reqs[p].kind \notin {"list", "delete"}
    /\ \A k \in 1..Len(server0) :
        (server0[k].id # Null /\ ~HasId(server, server0[k].id)) =>
            \E p \in Positions("delete"), q \in Positions("create") :
                /\ reqs[p].id = server0[k].id /\ reqs[p].ok
                /\ q < p /\ reqs[q].at = reqs[p].at /\ reqs[q].ok
                /\ HasReadable(server, reqs[q].url)

\* an original has been deleted after its substitute was verified
C1_Witness ==
    /\ script = "archiver"
    /\ \E p \in Positions("delete") : reqs[p].ok /\ ~HasId(server, reqs[p].id)
    /\ \E q \in Positions("create") : ~reqs[q].ok

(***************************************************************************)
(* C2: with dry_run set, process_articles issues no add-entry request, no  *)
(* re-fetch and no delete-entry request: the catalog is fetched exactly    *)
(* once, before the loop, and is left unchanged.                           *)
(***************************************************************************)
C2_DryRunMutatesNothing ==
    (script = "archiver" /\ dry_run) =>
        /\ Positions("create") = {}
        /\ Positions("delete") = {}
        /\ \A p \in Positions("list") : reqs[p].at = 0
        /\ pc = "loop" \/ (pc = "done" /\ token) => FetchCalls = 1
        /\ server = server0

\* a dry run is over in which an archive URL was found by lookup for one
\* candidate and by submission for another
C2_Witness ==
    /\ script = "archiver" /\ dry_run /\ pc = "done"
    /\ \E p \in Positions("lookup") : reqs[p].ok
    /\ \E p \in Positions("submit") : reqs[p].ok

(***************************************************************************)
(* C3: for every candidate the lookup is the first request; the submission *)
(* is issued if and only if the lookup found no archive, right after it;   *)
(* when the submission yields no archive URL either, nothing else is       *)
(* requested for the entry and the loop goes on with the next entry.       *)
(***************************************************************************)
C3_LookupThenSubmitThenSkip ==
    script = "archiver" =>
        \A k \in 1..Len(articles) :
            LET rs == ReqsAt(k) IN
            /\ rs # <<>> => rs[1].kind = "lookup"
            /\ \A p \in 1..Len(rs) :
                /\ rs[p].kind = "lookup" => p = 1
                /\ rs[p].kind = "submit" => p = 2 /\ ~rs[1].ok
            /\ (rs # <<>> /\ ~rs[1].ok) => (Len(rs) >= 2 /\ rs[2].kind = "submit")
            /\ (Len(rs) >= 2 /\ rs[2].kind = "submit" /\ ~rs[2].ok) =>
                /\ Len(rs) = 2
                /\ k = idx - 1 => pc \in {"loop", "done"}

\* a submission failed for one entry and the next entry was then processed
C3_Witness ==
    /\ script = "archiver"
    /\ \E k \in 1..Len(articles) :
        /\ Kinds(ReqsAt(k)) = <<"lookup", "submit">>
        /\ ~ReqsAt(k)[2].ok
        /\ ReqsAt(k + 1) # <<>>

(***************************************************************************)
(* C4: the archive lookup is attempted for an entry if and only if the     *)
(* entry has a url or origin_url, the hostname of that URL ends with one   *)
(* of the paywalled hosts, and its reading_time is neither null nor above  *)
(* the threshold; for every other entry no request at all is issued.       *)
(***************************************************************************)
C4_LookupIffCandidate ==
    script = "archiver" =>
        /\ \A k \in Processed :
            LET a == articles[k]
                u == IF a.url # NoUrl THEN a.url ELSE a.origin_url
                candidate ==
                    /\ a.url # NoUrl \/ a.origin_url # NoUrl
                    /\ \E h \in 1..Len(paywall_hosts) :
                        EndsWith(u.host, paywall_hosts[h])
                    /\ a.reading_time # Null
                    /\ ~(a.reading_time > ReadingThreshold)
            IN /\ candidate => (ReqsAt(k) # <<>> /\ ReqsAt(k)[1].kind = "lookup")
               /\ ~candidate => ReqsAt(k) = <<>>
        /\ \A p \in 1..Len(reqs) : reqs[p].at \in {0} \cup Processed

\* a run is over that looked up an entry whose reading time equals the
\* threshold and skipped one whose reading time is null
C4_Witness ==
    /\ script = "archiver" /\ pc = "done"
    /\ \E k \in Processed, j \in Processed :
        /\ articles[k].reading_time = ReadingThreshold /\ ReqsAt(k) # <<>>
        /\ articles[j].reading_time = Null /\ ReqsAt(j) = <<>>

(***************************************************************************)
(* C5: process_articles accepts a caller-supplied reading_threshold T and  *)
(* uses that T in the candidate filter and in the verification before the  *)
(* deletion.                                                               *)
(***************************************************************************)
C5_CallerThresholdUsed ==
    (script = "archiver" /\ reading_threshold # Absent) =>
        /\ pc # "TypeError"
        /\ \A k \in Processed :
            (ReqsAt(k) # <<>>) =>
                ~(articles[k].reading_time > reading_threshold)
        /\ \A p \in Positions("delete") :
            \E e \in 1..Len(server) :
                server[e].reading_time > reading_threshold

(***************************************************************************)
(* C6: in every run of the three scripts the tag `archived` is sent only   *)
(* in a create-entry request of the archiver whose URL is the archive URL  *)
(* that the lookup or the submission of that iteration returned; no tag    *)
(* request carries it, the request addresses no existing entry, and no     *)
(* entry the catalog held at the start ever carries the tag.               *)
(***************************************************************************)
C6_ArchivedOnlyOnSubstitute ==
    LET ArchiveUrls ==
            ({get_existing_archive(r) : r \in LookupResponses}
             \cup {submit_to_archive(r) : r \in SubmitResponses}) \ {NoUrl}
    IN
    /\ \A p \in 1..Len(reqs) :
        "archived" \in reqs[p].tags =>
            /\ script = "archiver"
            /\ reqs[p].kind = "create"
            /\ reqs[p].id = Null
            /\ reqs[p].url \in ArchiveUrls
            /\ \E q \in 1..(p - 1) :
                /\ reqs[q].at = reqs[p].at
                /\ reqs[q].kind \in {"lookup", "submit"}
                /\ reqs[q].ok
            /\ \A k \in 1..Len(server0) :
                reqs[p].url \notin {server0[k].url, server0[k].origin_url}
    /\ \A e \in 1..Len(server) :
        "archived" \in server[e].tags => ~HasId(server0, server[e].id)

\* a substitute tagged archived was created next to its original, which the
\* run kept
C6_Witness ==
    /\ \E p \in Positions("create") : reqs[p].ok /\ reqs[p].tags = {"archived"}
    /\ \E e \in 1..Len(server), k \in 1..Len(server) :
        /\ "archived" \in server[e].tags
        /\ HasId(server0, server[k].id) /\ server[k].id # Null
    /\ pc = "done"

(***************************************************************************)
(* Reading the log of the labeller.                                        *)
(***************************************************************************)
\* the requests of iteration k that carry the label
LabelReqsAt(k, label) ==
    SelectSeq(reqs, LAMBDA r : r.at = k /\ r.tags = {label}
                               /\ r.kind \in {"tag_add", "tag_del"})

\* the iterations of label_broken_articles that are over
BrokenProcessed ==
    IF pc = "broken" THEN Processed
    ELSE IF returned.broken # Null THEN 1..Len(articles)
    ELSE {}

\* labeled_count of label_broken_articles, running or returned
BrokenCount == IF pc = "broken" THEN labeled_count ELSE returned.broken

(***************************************************************************)
(* C7: label_broken_articles marks an entry that has an id and is not      *)
(* tagged broken if and only if its pages are 0, or its size is not null   *)
(* and below 10240, or its reading_time is 0; a null or missing field      *)
(* triggers no rule.  Marking is the tag request in a live run and the     *)
(* count in both modes.                                                    *)
(***************************************************************************)
C7_BrokenIffQualityRule ==
    script = "labeler" =>
        LET eligible(a) == a.id # Null /\ "broken" \notin a.tags
            rule(a) ==
                \/ a.pages = 0
                \/ a.size \notin {Null, Absent} /\ a.size < 10240
                \/ a.reading_time = 0
            sent(k) == LabelReqsAt(k, "broken")
        IN
        /\ \A k \in BrokenProcessed :
            LET a == articles[k] IN
            eligible(a) =>
                /\ (sent(k) # <<>>) <=> (rule(a) /\ ~dry_run)
                /\ sent(k) # <<>> =>
                    /\ Len(sent(k)) = 1
                    /\ sent(k)[1].kind = "tag_add" /\ sent(k)[1].id = a.id
                    /\ sent(k)[1].ok =>
                        \E e \in 1..Len(server) :
                            server[e].id = a.id /\ "broken" \in server[e].tags
        /\ (pc = "broken" \/ returned.broken # Null) =>
            BrokenCount =
                Cardinality({k \in BrokenProcessed :
                                /\ eligible(articles[k]) /\ rule(articles[k])
                                /\ dry_run \/ sent(k)[1].ok})

\* a live run marked an entry of 10239 bytes and left alone one of 10240
\* bytes that has pages and a reading time
C7_Witness ==
    /\ script = "labeler" /\ ~dry_run /\ returned.broken # Null
    /\ \E k \in 1..Len(articles), j \in 1..Len(articles) :
        /\ articles[k].size = 10239 /\ articles[k].pages # 0
        /\ LabelReqsAt(k, "broken") # <<>>
        /\ articles[j].size = 10240 /\ articles[j].reading_time = 1
        /\ LabelReqsAt(j, "broken") = <<>>

(***************************************************************************)
(* C8: for an entry already tagged broken label_broken_articles issues no  *)
(* request and counts nothing; run again over the entries as they are      *)
(* after a live run whose tag additions all took effect, it issues no      *)
(* request and returns 0.                                                  *)
(***************************************************************************)
C8_BrokenIdempotent ==
    script = "labeler" =>
        LET sent == SelectSeq(reqs, LAMBDA r : r.tags = {"broken"})
            after == ApplyTagReqs(articles, sent)
        IN
        /\ \A k \in BrokenProcessed :
            "broken" \in articles[k].tags => LabelReqsAt(k, "broken") = <<>>
        /\ (pc = "broken" \/ returned.broken # Null) =>
            BrokenCount <= Cardinality({k \in BrokenProcessed :
                                            "broken" \notin articles[k].tags})
        /\ (/\ returned.broken # Null
            /\ ~dry_run
            /\ \A p \in 1..Len(sent) : sent[p].ok) =>
                \A dry \in BOOLEAN :
                    /\ label_broken_articles(after, dry, TRUE).reqs = <<>>
                    /\ label_broken_articles(after, dry, TRUE).labeled = 0

\* a live run found a broken entry already tagged and tagged another one
C8_Witness ==
    /\ script = "labeler" /\ ~dry_run /\ returned.broken = 1
    /\ \E k \in 1..Len(articles) :
        /\ "broken" \in articles[k].tags /\ articles[k].pages = 0
    /\ \E p \in 1..Len(reqs) : reqs[p].tags = {"broken"} /\ reqs[p].ok

(***************************************************************************)
(* C9: over any list of entries, each of label_broken_articles,            *)
(* label_old_articles and label_old_very_old_articles issues no request in *)
(* a dry run and returns what its live run returns when every request      *)
(* succeeds; a dry run of the scripts leaves no tag request in the log.    *)
(***************************************************************************)
C9_DryRunCountsLikeLive ==
    script \in {"labeler", "label_old"} =>
        LET run(f, dry) ==
                CASE f = 1 -> label_broken_articles(articles, dry, TRUE)
                  [] f = 2 -> label_old_articles(articles, dry, utcnow, py311, TRUE)
                  [] f = 3 -> label_old_very_old_articles(articles, dry, utcnow,
                                                          py311, TRUE)
        IN
        /\ \A f \in 1..3 :
            (pc \in {"broken", "old"} /\ idx = 1) =>
            LET d == run(f, TRUE)
                l == run(f, FALSE)
            IN
            /\ d.reqs = <<>>
            /\ d.labeled = l.labeled
            /\ ~l.crashed
        /\ dry_run =>
            /\ \A p \in 1..Len(reqs) : reqs[p].kind \in {"token", "list"}
            /\ server = server0
            /\ (returned.broken # Null /\ pc = "old_very_old" /\ idx = 1) =>
                    returned.broken = run(1, FALSE).labeled
            /\ (returned.old # Null /\ pc = "done") =>
                    returned.old = run(2, FALSE).labeled
            /\ (returned.old_very_old # Null /\ pc = "done") =>
                    returned.old_very_old = run(3, FALSE).labeled

\* a dry run of the labeller is over that counted a broken entry and met an
\* entry to label old or very-old
C9_Witness ==
    /\ script = "labeler" /\ dry_run /\ pc = "done"
    /\ returned.broken >= 1
    /\ labeled_old_count + labeled_very_old_count >= 1

(***************************************************************************)
(* C10: label_old_very_old_articles returns the number of entries it       *)
(* labelled old or very-old: the tag additions that succeeded in a live    *)
(* run, the entries with an age decision in a dry run.                     *)
(***************************************************************************)
C10_ReturnsNumberLabelled ==
    (script = "labeler" /\ returned.old_very_old # Null) =>
        returned.old_very_old = labeled_old_count + labeled_very_old_count

(***************************************************************************)
(* Reading the log of the age-labelling loops.                             *)
(***************************************************************************)
\* the iterations of label_old_articles that are over
OldProcessed ==
    IF pc = "old" THEN Processed
    ELSE IF returned.old # Null THEN 1..Len(articles)
    ELSE {}

\* labeled_count of label_old_articles, running or returned
OldCount == IF pc = "old" THEN labeled_count ELSE returned.old

\* the iterations of label_old_very_old_articles that are over, the one
\* that raised included
OldVeryOldProcessed ==
    IF pc = "old_very_old" THEN Processed
    ELSE IF returned.old_very_old # Null THEN 1..Len(articles)
    ELSE IF pc = "crashed" THEN 1..(idx - 1)
    ELSE {}

\* the requests of iteration k about the tags old and very-old
AgeReqsAt(k) ==
    SelectSeq(reqs, LAMBDA r : r.at = k /\ r.kind \in {"tag_add", "tag_del"}
                               /\ r.tags \in {{"old"}, {"very-old"}})

\* the number of requests of the log that added the label and succeeded
Added(label) ==
    Cardinality({p \in Positions("tag_add") :
                    reqs[p].tags = {label} /\ reqs[p].ok})

(***************************************************************************)
(* C11: in a live run of label_broken_articles and of label_old_articles a *)
(* tag addition that fails is not counted and stops nothing: the count is  *)
(* the number of additions that succeeded, no exception leaves the         *)
(* function, and every entry reached that qualifies has its request.       *)
(***************************************************************************)
C11_FailedAdditionOnlyUncounted ==
    /\ (script = "labeler" /\ ~dry_run /\ (pc = "broken" \/ returned.broken # Null)) =>
        /\ BrokenCount = Added("broken")
        /\ \A k \in BrokenProcessed :
            LET a == articles[k] IN
            (a.id # Null /\ "broken" \notin a.tags /\ IsBroken(a)) =>
                Len(LabelReqsAt(k, "broken")) = 1
        /\ pc = "crashed" => returned.broken # Null
    /\ (script = "label_old" /\ ~dry_run /\ (pc = "old" \/ returned.old # Null)) =>
        /\ OldCount = Added("old")
        /\ \A k \in OldProcessed :
            LET a == articles[k] IN
            (/\ a.id # Null
             /\ a.created_at.kind = "str" /\ a.created_at.shape = "iso"
             /\ Ordinal(a.created_at.date) < Ordinal(utcnow) - 90) =>
                Len(AgeReqsAt(k)) = 1
    /\ script = "label_old" => pc # "crashed"

\* in a live run of each function an addition failed and the entry after it
\* was requested
C11_Witness ==
    /\ ~dry_run
    /\ \/ /\ script = "labeler" /\ returned.broken = 1
          /\ LabelReqsAt(1, "broken") # <<>> /\ LabelReqsAt(2, "broken") # <<>>
          /\ ~LabelReqsAt(1, "broken")[1].ok /\ LabelReqsAt(2, "broken")[1].ok
       \/ /\ script = "label_old" /\ returned.old = 1
          /\ AgeReqsAt(1) # <<>> /\ AgeReqsAt(2) # <<>>
          /\ ~AgeReqsAt(1)[1].ok /\ AgeReqsAt(2)[1].ok

(***************************************************************************)
(* C12: in a live run of label_old_very_old_articles a removal of the tag  *)
(* old that fails is recovered: the loop goes on with the remaining        *)
(* entries and main finishes.                                              *)
(***************************************************************************)
C12_FailedRemovalRecovered ==
    script = "labeler" =>
        \A p \in Positions("tag_del") :
            ~reqs[p].ok => pc \in {"old_very_old", "done"}

(***************************************************************************)
(* C13: within one call of a labelling function over entries with distinct *)
(* ids, an entry receives at most one addition request per tag and at most *)
(* one removal request, each in the iteration of that entry; a request     *)
(* that failed is not repeated.                                            *)
(***************************************************************************)
C13_AtMostOncePerEntry ==
    script \in {"labeler", "label_old"} =>
        LET tag_reqs == Positions("tag_add") \cup Positions("tag_del") IN
        /\ \A p \in tag_reqs :
            /\ reqs[p].at \in 1..Len(articles)
            /\ reqs[p].id = articles[reqs[p].at].id
            /\ reqs[p].id # Null
        /\ \A p \in tag_reqs, q \in tag_reqs :
            (/\ reqs[p].id = reqs[q].id
             /\ reqs[p].kind = reqs[q].kind
             /\ reqs[p].tags = reqs[q].tags \/ reqs[p].kind = "tag_del") => p = q

\* an addition failed, the loop went on, and the entry has that one request
C13_Witness ==
    /\ script = "labeler" /\ pc = "done"
    /\ \E p \in Positions("tag_add") :
        /\ ~reqs[p].ok /\ reqs[p].tags = {"very-old"}
        /\ \E q \in Positions("tag_del") : reqs[q].at = reqs[p].at /\ reqs[q].ok
        /\ reqs[p].at < Len(articles)

(***************************************************************************)
(* The entries the age-labelling loops decide about.                       *)
(***************************************************************************)
\* the entry is not skipped by label_old_very_old_articles: it has an id,
\* its created_at parses and it is not tagged very-old without old
Decided(a) ==
    /\ a.id # Null
    /\ a.created_at.kind = "str"
    /\ FromIsoformat(a.created_at, py311)
    /\ ~("very-old" \in a.tags /\ "old" \notin a.tags)

\* the calendar-aware ladder: the date moved on by 12, or by 3, calendar
\* months is not after today
Ladder(date) ==
    IF ~DateLT(utcnow, AddMonths(date, 12)) THEN "very-old"
    ELSE IF ~DateLT(utcnow, AddMonths(date, 3)) THEN "old"
    ELSE ""

\* the entry has an id and a created_at that label_old_articles parses
DatedForOld(a) ==
    /\ a.id # Null
    /\ a.created_at.kind = "str"
    /\ a.created_at.shape = "iso"

\* whole days from the date to today
AgeInDays(date) == Ordinal(utcnow) - Ordinal(date)

(***************************************************************************)
(* C14: for every entry with a parsable created_at that is not skipped,    *)
(* label_old_very_old_articles decides by calendar-aware elapsed time: at  *)
(* least 1 year, exactly 1 year included, gives very-old, preceded by a    *)
(* removal request for old when the entry holds old; at least 3 months and *)
(* less than 1 year gives old; less gives no request and no count.         *)
(***************************************************************************)
C14_AgeLadder ==
    script = "labeler" =>
        LET decided(label) ==
                {k \in OldVeryOldProcessed :
                    Decided(articles[k]) /\ Ladder(articles[k].created_at.date) = label}
            add(k, label, ok) == Req("tag_add", k, articles[k].id, NoUrl, {label}, 0, ok)
            del(k, ok) == Req("tag_del", k, articles[k].id, NoUrl, {"old"}, 0, ok)
        IN
        /\ \A k \in OldVeryOldProcessed :
            LET a == articles[k]
                label == Ladder(a.created_at.date)
                rs == AgeReqsAt(k)
            IN Decided(a) =>
                IF dry_run \/ label = "" THEN rs = <<>>
                ELSE IF label = "very-old" /\ "old" \in a.tags
                THEN \/ rs = <<del(k, FALSE)>> /\ pc = "crashed"
                     \/ \E ok \in BOOLEAN : rs = <<del(k, TRUE), add(k, label, ok)>>
                ELSE \E ok \in BOOLEAN : rs = <<add(k, label, ok)>>
        /\ dry_run =>
            /\ labeled_old_count = Cardinality(decided("old"))
            /\ labeled_very_old_count = Cardinality(decided("very-old"))
        /\ ~dry_run =>
            /\ labeled_old_count = Added("old")
            /\ labeled_very_old_count = Added("very-old")

\* a live run took old off an entry created exactly one year ago and tagged
\* it very-old
C14_Witness ==
    /\ script = "labeler" /\ ~dry_run /\ returned.old_very_old # Null
    /\ \E k \in 1..Len(articles) :
        /\ AddMonths(articles[k].created_at.date, 12) = utcnow
        /\ Kinds(AgeReqsAt(k)) = <<"tag_del", "tag_add">>
        /\ AgeReqsAt(k)[2].ok /\ AgeReqsAt(k)[2].tags = {"very-old"}

(***************************************************************************)
(* C15, as the code has it: label_old_articles classifies as old the       *)
(* entries created more than 90 days before the current time; an entry     *)
(* created exactly 90 days before it, or later, is not classified.         *)
(***************************************************************************)
C15_OlderThan90Days ==
    script = "label_old" =>
        /\ \A k \in OldProcessed :
            LET a == articles[k] IN
            DatedForOld(a) =>
                ((AgeReqsAt(k) # <<>>) <=>
                    (~dry_run /\ AgeInDays(a.created_at.date) > 90))
        /\ (dry_run /\ (pc = "old" \/ returned.old # Null)) =>
            OldCount = Cardinality({k \in OldProcessed :
                            /\ DatedForOld(articles[k])
                            /\ AgeInDays(articles[k].created_at.date) > 90})

\* a live run left an entry of exactly 90 days alone and requested old for
\* one of 91 days
C15_Witness ==
    /\ script = "label_old" /\ ~dry_run /\ returned.old # Null
    /\ \E k \in 1..Len(articles), j \in 1..Len(articles) :
        /\ DatedForOld(articles[k]) /\ DatedForOld(articles[j])
        /\ AgeInDays(articles[k].created_at.date) = 90 /\ AgeReqsAt(k) = <<>>
        /\ AgeInDays(articles[j].created_at.date) = 91 /\ AgeReqsAt(j) # <<>>

\* C15 as stated: an entry created exactly 90 days before the current time
\* is classified old by label_old_articles, as is every older entry, and no
\* younger one
C15_OldFromDay90 ==
    (script = "label_old" /\ ~dry_run) =>
        \A k \in OldProcessed :
            LET a == articles[k] IN
            DatedForOld(a) =>
                ((AgeReqsAt(k) # <<>>) <=> AgeInDays(a.created_at.date) >= 90)

(***************************************************************************)
(* C16: an entry whose created_at lies in the future, however far, gets no *)
(* age tag: label_old_articles and label_old_very_old_articles issue no    *)
(* request about old or very-old for it and count nothing for it.          *)
(***************************************************************************)
C16_FutureNeverAged ==
    script \in {"labeler", "label_old"} =>
        LET future(a) == a.created_at.shape = "iso" /\ DateLT(utcnow, a.created_at.date)
            past(S) == Cardinality({k \in S : ~future(articles[k])})
        IN
        /\ \A k \in 1..Len(articles) : future(articles[k]) => AgeReqsAt(k) = <<>>
        /\ (pc = "old" \/ returned.old # Null) => OldCount <= past(OldProcessed)
        /\ labeled_old_count + labeled_very_old_count <= past(OldVeryOldProcessed)

\* a run of label_old_very_old_articles went past an entry dated more than a
\* year ahead, which it did not skip, and labelled another entry
C16_Witness ==
    /\ script = "labeler" /\ returned.old_very_old # Null
    /\ labeled_old_count + labeled_very_old_count >= 1
    /\ \E k \in 1..Len(articles) :
        /\ Decided(articles[k])
        /\ DateLT(utcnow, AddMonths(articles[k].created_at.date, -12))

(***************************************************************************)
(* C17: an entry whose created_at is missing, null, no string or           *)
(* unparsable is skipped by the age-labelling loops without an exception   *)
(* and without a request, the entries before and after it are classified   *)
(* as they are without it, and label_broken_articles classifies the entry  *)
(* like any other.                                                         *)
(***************************************************************************)
C17_BadDateSkippedForAgeOnly ==
    LET bad(a) == a.created_at.kind # "str" \/ a.created_at.shape # "iso"
        unparsed(a) == bad(a) \/ ~FromIsoformat(a.created_at, py311)
    IN
    /\ script = "label_old" =>
        /\ \A k \in OldProcessed : bad(articles[k]) => AgeReqsAt(k) = <<>>
        /\ \A k \in OldProcessed :
            (/\ ~dry_run /\ DatedForOld(articles[k])
             /\ AgeInDays(articles[k].created_at.date) > 90) => AgeReqsAt(k) # <<>>
        /\ pc # "crashed"
    /\ script = "labeler" =>
        /\ \A k \in OldVeryOldProcessed :
            unparsed(articles[k]) => AgeReqsAt(k) = <<>>
        /\ \A k \in OldVeryOldProcessed :
            (/\ ~dry_run /\ Decided(articles[k])
             /\ Ladder(articles[k].created_at.date) # "") => AgeReqsAt(k) # <<>>
        /\ pc = "crashed" =>
            /\ AgeReqsAt(idx - 1) # <<>>
            /\ ~unparsed(articles[idx - 1])
        /\ \A k \in BrokenProcessed :
            LET a == articles[k] IN
            (/\ unparsed(a) /\ ~dry_run
             /\ a.id # Null /\ "broken" \notin a.tags /\ IsBroken(a)) =>
                Len(LabelReqsAt(k, "broken")) = 1

\* a live run of the labeller tagged broken an entry whose created_at is no
\* date, passed it in the age loop, and labelled the entry after it
C17_Witness ==
    /\ script = "labeler" /\ ~dry_run /\ pc = "done"
    /\ \E k \in 1..Len(articles) :
        /\ articles[k].created_at.kind # "str" \/ articles[k].created_at.shape # "iso"
        /\ LabelReqsAt(k, "broken") # <<>>
        /\ AgeReqsAt(k) = <<>>
        /\ AgeReqsAt(k + 1) # <<>>

(***************************************************************************)
(* C18: for an entry whose tags contain old and whose age is at least 3    *)
(* months and less than 1 year, label_old_articles and                     *)
(* label_old_very_old_articles issue no tag request and count nothing.     *)
(***************************************************************************)
C18_OldNotRelabelled ==
    /\ script = "labeler" =>
        /\ \A k \in OldVeryOldProcessed :
            (/\ Decided(articles[k]) /\ "old" \in articles[k].tags
             /\ Ladder(articles[k].created_at.date) = "old") => AgeReqsAt(k) = <<>>
        /\ labeled_old_count <=
            Cardinality({k \in OldVeryOldProcessed : "old" \notin articles[k].tags})
    /\ script = "label_old" =>
        /\ \A k \in OldProcessed :
            (/\ DatedForOld(articles[k]) /\ "old" \in articles[k].tags
             /\ Ladder(articles[k].created_at.date) = "old") => AgeReqsAt(k) = <<>>

(***************************************************************************)
(* C19: label_old_very_old_articles skips an entry tagged very-old and not *)
(* tagged old, whatever its created_at: it issues no addition and no       *)
(* removal request for it and leaves its age tags as they are.             *)
(***************************************************************************)
C19_VeryOldSkipped ==
    script = "labeler" =>
        \A k \in 1..Len(articles) :
            LET a == articles[k] IN
            ("very-old" \in a.tags /\ "old" \notin a.tags) =>
                /\ AgeReqsAt(k) = <<>>
                /\ \A e \in 1..Len(server) :
                    server[e].id = a.id =>
                        server[e].tags \ {"broken"} = a.tags \ {"broken"}

\* a live run went past an entry two years old tagged very-old only and
\* labelled another entry
C19_Witness ==
    /\ script = "labeler" /\ ~dry_run /\ returned.old_very_old # Null
    /\ \E k \in 1..Len(articles) :
        /\ articles[k].tags = {"broken", "very-old"}
        /\ Ladder(articles[k].created_at.date) = "very-old"
    /\ \E j \in 1..Len(articles) : AgeReqsAt(j) # <<>>

(***************************************************************************)
(* C20, as the code has it: after a live run of                            *)
(* label_old_very_old_articles every entry for which the addition of       *)
(* very-old succeeded holds very-old and not old, the removal of old       *)
(* having preceded the addition when the entry held old; an entry that     *)
(* held both tags and is less than a year old keeps both.                  *)
(***************************************************************************)
C20_VeryOldSupersedesOld ==
    script = "labeler" =>
        /\ \A p \in Positions("tag_add") :
            (reqs[p].tags = {"very-old"} /\ reqs[p].ok) =>
                /\ \E e \in 1..Len(server) :
                    /\ server[e].id = reqs[p].id
                    /\ "very-old" \in server[e].tags
                    /\ "old" \notin server[e].tags
                /\ "old" \in articles[reqs[p].at].tags =>
                    \E q \in Positions("tag_del") :
                        q < p /\ reqs[q].id = reqs[p].id /\ reqs[q].ok
        /\ \A k \in OldVeryOldProcessed :
            LET a == articles[k] IN
            (/\ Decided(a) /\ {"old", "very-old"} \subseteq a.tags
             /\ Ladder(a.created_at.date) # "very-old") =>
                \E e \in 1..Len(server) :
                    server[e].id = a.id /\ {"old", "very-old"} \subseteq server[e].tags

\* a live run with every request answered ok tagged very-old an entry that
\* held old and went past an entry five months old that holds both tags
C20_Witness ==
    /\ script = "labeler" /\ ~dry_run /\ returned.old_very_old # Null
    /\ \A p \in 1..Len(reqs) : reqs[p].ok
    /\ \E p \in Positions("tag_add"), q \in Positions("tag_del") :
        reqs[p].tags = {"very-old"} /\ reqs[q].id = reqs[p].id
    /\ \E k \in 1..Len(articles) :
        /\ {"old", "very-old"} \subseteq articles[k].tags
        /\ articles[k].created_at.shape = "iso"
        /\ Ladder(articles[k].created_at.date) = "old"

\* C20 as stated: after a live run of label_old_very_old_articles in which
\* every request succeeded, no processed entry with a parsable created_at
\* holds both old and very-old
C20_NeverBothTags ==
    (/\ script = "labeler" /\ ~dry_run /\ returned.old_very_old # Null
     /\ \A p \in 1..Len(reqs) : reqs[p].ok) =>
        \A k \in 1..Len(articles) :
            LET a == articles[k] IN
            (/\ a.id # Null /\ a.created_at.kind = "str"
             /\ FromIsoformat(a.created_at, py311)) =>
                \A e \in 1..Len(server) :
                    server[e].id = a.id =>
                        ~({"old", "very-old"} \subseteq server[e].tags)

(***************************************************************************)
(* Reading the log of a fetcher called directly.                           *)
(***************************************************************************)
\* every response received so far is a non-empty page that reports its own
\* number and n pages in all
Honest(n) ==
    \A k \in 1..Len(responses) :
        /\ responses[k].kind = "ok"
        /\ responses[k].items # <<>>
        /\ responses[k].page = k
        /\ responses[k].pages = n

\* the items of the first k responses, in the order received
RECURSIVE ItemsUpTo(_)
ItemsUpTo(k) ==
    IF k = 0 THEN <<>> ELSE ItemsUpTo(k - 1) \o responses[k].items

(***************************************************************************)
(* C21: against a server of N non-empty pages, page i reporting page = i   *)
(* and pages = N, get_all_articles and get_unread_articles request the     *)
(* pages 1, 2, ..., N in that order, one request each and none after page  *)
(* N, and return the items of the pages concatenated in page order.        *)
(***************************************************************************)
C21_FetchesEveryPageInOrder ==
    script \in Fetchers =>
        \A n \in 1..MaxPages :
            Honest(n) =>
                /\ Len(reqs) <= n
                /\ \A k \in 1..Len(reqs) :
                    reqs[k].kind = "list" /\ reqs[k].page = k /\ reqs[k].ok
                /\ (pc = "returned" /\ token) =>
                    /\ Len(reqs) = n
                    /\ articles = ItemsUpTo(n)
                /\ Len(reqs) = n => pc = "returned"

\* get_all_articles returned after the three pages of a three-page server
C21_Witness ==
    /\ script = "get_all_articles" /\ pc = "returned"
    /\ Honest(3)
    /\ Len(reqs) = 3
    /\ Len(articles) = 6

\* no request of the fetch so far failed
NoFailure == \A k \in 1..Len(responses) : ~Failed(responses[k])

\* the fetch stopped at its last response / goes on after it
Stopped == pc = "returned" /\ responses # <<>>
GoesOn == pc = "fetching"

(***************************************************************************)
(* C22, as the code has it: absent a failure, get_all_articles stops when, *)
(* and only when, the page is empty, or the response lacks the item        *)
(* container, or it lacks the current page or the total, or it reports     *)
(* current page >= total; get_unread_articles stops when, and only when,   *)
(* the page is empty, or the response lacks the item container, or the     *)
(* page number it requested is >= the total reported (a missing total      *)
(* counting as 0), whatever current page the response reports.  A response *)
(* without item container is no error: the entries of the earlier pages    *)
(* are returned.                                                           *)
(***************************************************************************)
C22_StopsWhenAndOnlyWhen ==
    (script \in Fetchers /\ NoFailure /\ responses # <<>>) =>
        LET k == Len(responses)
            r == responses[k]
            stop == \/ r.kind = "no_items"
                    \/ r.items = <<>>
                    \/ IF script = "get_all_articles"
                       THEN r.page = Absent \/ r.pages = Absent
                            \/ r.page >= r.pages
                       ELSE r.pages = Absent \/ k >= r.pages
        IN
        /\ stop => Stopped
        /\ ~stop => GoesOn
        /\ r.kind = "no_items" =>
            /\ articles = ItemsUpTo(k - 1)
            /\ reqs[k].ok

\* get_unread_articles returned the first page after a second response
\* without item container
C22_Witness ==
    /\ script = "get_unread_articles" /\ Stopped
    /\ Len(responses) = 2
    /\ responses[2] = NoContainer
    /\ articles = ItemsOf(1)

\* C22 as stated: absent a failure, a fetcher stops when, and only when, the
\* page is empty, or the response reports current page >= total pages, or
\* the response lacks the item container
C22_StopsOnReportedPage ==
    (script \in Fetchers /\ NoFailure /\ responses # <<>>) =>
        LET r == responses[Len(responses)]
            stop == \/ r.kind = "no_items"
                    \/ r.items = <<>>
                    \/ /\ r.page # Absent /\ r.pages # Absent
                       /\ r.page >= r.pages
        IN
        /\ stop => Stopped
        /\ ~stop => GoesOn

(***************************************************************************)
(* C23: when a page request fails (transport, HTTP status, undecodable     *)
(* body), get_all_articles and get_unread_articles stop without asking for *)
(* the page again and return the entries of the pages fetched before the   *)
(* failure, the empty list if it was page 1.                               *)
(***************************************************************************)
C23_FailureReturnsAccumulated ==
    (script \in Fetchers /\ responses # <<>>) =>
        LET k == Len(responses) IN
        Failed(responses[k]) =>
            /\ Stopped
            /\ Len(reqs) = k
            /\ \A j \in 1..k : reqs[j].page = j
            /\ articles = ItemsUpTo(k - 1)

(***************************************************************************)
(* C28: against a server whose responses all report the same total page    *)
(* count N, whatever current page and items they carry, get_all_articles   *)
(* and get_unread_articles issue at most N page requests.                  *)
(***************************************************************************)
C28_AtMostNRequests ==
    script \in Fetchers =>
        \A n \in 1..MaxPages :
            (\A k \in 1..Len(responses) :
                /\ responses[k].kind = "ok"
                /\ responses[k].items # <<>>
                /\ responses[k].pages = n) =>
                    Len(reqs) <= n

(***************************************************************************)
(* C24: while no token is set no request other than the token request is   *)
(* issued: the fetchers, the labelling functions, add_article_to_wallabag  *)
(* and delete_article_from_wallabag called without a token send nothing,   *)
(* change nothing and return [] / 0 / False; main asks for the token once, *)
(* before any other request, and ends the run when it gets none.           *)
(***************************************************************************)
C24_NothingWithoutToken ==
    /\ ~token =>
        /\ \A p \in 1..Len(reqs) : reqs[p].kind = "token"
        /\ server = server0
    /\ (~token /\ pc = "returned") =>
        /\ script \in Fetchers => articles = <<>>
        /\ script = "label_broken_articles" => returned.broken = 0
        /\ script = "label_old_articles" => returned.old = 0
        /\ script = "label_old_very_old_articles" => returned.old_very_old = 0
        /\ script \in Mutations => returned.done = 0
    /\ script \in {"archiver", "labeler", "label_old", "rss"} =>
        /\ \A p \in 1..Len(reqs) : reqs[p].kind = "token" <=> p = 1
        /\ (reqs # <<>> /\ ~reqs[1].ok) => (pc = "done" /\ ~token)

\* delete_article_from_wallabag was called with no token set and returned
\* False, the entry still in the catalog
C24_Witness ==
    /\ script = "delete_article_from_wallabag" /\ ~token /\ pc = "returned"
    /\ returned.done = 0
    /\ reqs = <<>>
    /\ HasId(server, 1)

(***************************************************************************)
(* C25: when a configuration field (client id, client secret, username,    *)
(* password, instance URL) is missing, the run issues no request at all,   *)
(* ends at once, and its error log names every missing field.              *)
(***************************************************************************)
C25_MissingConfigurationReported ==
    (script \in {"archiver", "labeler", "rss"} /\ missing_creds # {}) =>
        /\ reqs = <<>>
        /\ pc = "done"
        /\ ~token
        /\ server = server0
        /\ reported = missing_creds

(***************************************************************************)
(* C26: for an entry that lacks an id no request of any kind is issued, by *)
(* label_broken_articles, label_old_articles, label_old_very_old_articles  *)
(* or process_articles.                                                    *)
(***************************************************************************)
C26_NoIdNoRequest ==
    script \in {"archiver", "labeler", "label_old"} =>
        \A k \in 1..Len(articles) :
            articles[k].id = Null => ReqsAt(k) = <<>>

(***************************************************************************)
(* C27, as the code has it: is_recent_article(date, days) returns true if  *)
(* and only if the date parses, is not later than now, and lies at most    *)
(* `days` days and one minute back: a date exactly `days` days old, or up  *)
(* to a minute older, is recent, one two minutes older or `days` + 1 days  *)
(* old is not; a missing, empty, unparsable or future date gives false,    *)
(* and no exception.                                                       *)
(***************************************************************************)
C27_RecentWithinDaysAndAMinute ==
    (script = "is_recent_article" /\ pc # "call") =>
        LET c == articles[1].created_at
            cutoff == MinusDays(utcnow, days)
            parses == c.kind = "str" /\ c.shape = "iso"
            future == DateLT(utcnow, c.date) \/ (c.date = utcnow /\ c.minutes > 0)
            within == \/ Ordinal(c.date) > cutoff
                      \/ Ordinal(c.date) = cutoff /\ c.minutes >= -1
        IN
        /\ pc = "returned"
        /\ returned.done \in {0, 1}
        /\ returned.done = 1 <=> (parses /\ ~future /\ within)

\* is_recent_article returned true for a date thirty days and a minute old
C27_Witness ==
    /\ script = "is_recent_article" /\ pc = "returned" /\ days = RecentDays
    /\ articles[1].created_at.shape = "iso"
    /\ articles[1].created_at.date = <<2024, 5, 1>>
    /\ articles[1].created_at.minutes = -1
    /\ returned.done = 1

\* C27 as stated: is_recent_article returns true if and only if the date
\* parses, is not later than now, and the elapsed time is at most `days` days
C27_RecentWithinDays ==
    (script = "is_recent_article" /\ pc # "call") =>
        LET c == articles[1].created_at
            cutoff == MinusDays(utcnow, days)
            parses == c.kind = "str" /\ c.shape = "iso"
            future == DateLT(utcnow, c.date) \/ (c.date = utcnow /\ c.minutes > 0)
            within == \/ Ordinal(c.date) > cutoff
                      \/ Ordinal(c.date) = cutoff /\ c.minutes >= 0
        IN
        /\ pc = "returned"
        /\ returned.done = 1 <=> (parses /\ ~future /\ within)

(***************************************************************************)
(* C29: an entry that holds `old` before a live run of                     *)
(* label_old_very_old_articles and is at least a year old holds `old` or   *)
(* `very-old` after the run, whichever of its removal and addition         *)
(* requests fail.                                                          *)
(***************************************************************************)
C29_OldOrVeryOldKept ==
    (script \in {"labeler", "label_old"} /\ ~dry_run) =>
        \A i \in 1..Len(server0) :
            (/\ i <= Len(server)
             /\ server0[i].id # Null
             /\ "old" \in server0[i].tags
             /\ server0[i].created_at.kind = "str"
             /\ server0[i].created_at.shape = "iso"
             /\ LabelToApply(utcnow, server0[i].created_at.date) = "very-old")
            => ("old" \in server[i].tags \/ "very-old" \in server[i].tags)

(***************************************************************************)
(* C30: in a live run of process_articles, when the substitute that was    *)
(* added is found in the re-fetched list with a null reading_time, the     *)
(* original is not deleted and the workflow goes on with the remaining     *)
(* candidates: no exception ends the run.                                  *)
(***************************************************************************)
C30_NullReadingTimeContinues ==
    script = "archiver" =>
        \A i \in 1..Len(reqs) :
            (/\ reqs[i].kind = "create"
             /\ reqs[i].ok
             /\ \E k \in 1..Len(server) : server[k].url = reqs[i].url
             /\ \A k \in 1..Len(server) :
                    (server[k].url = reqs[i].url
                        \/ server[k].origin_url = reqs[i].url)
                    => server[k].reading_time = Null)
            => /\ \A j \in 1..Len(reqs) :
                    ~(reqs[j].kind = "delete" /\ reqs[j].at = reqs[i].at)
               /\ pc # "crashed"

====
